---- MODULE Spec2Model ----
(***************************************************************************)
(* State-machine model of opencode-notification-sdk: the per-event-type    *)
(* rate limiter (src/src/rate-limiter.ts) and the notification decision    *)
(* pipeline (src/src/plugin-factory.ts, src/unnamed/part_016).             *)
(***************************************************************************)
EXTENDS Integers, Sequences, FiniteSets, TLC

(***************************************************************************)
(* Bounds of the model.                                                    *)
(***************************************************************************)
\* Granularity of the clock: one Tick advances Date.now() by TickMs.
TickMs == 1000
\* Number of Ticks a behaviour may take.
MaxTicks == 3
\* Date.now() at construction.  It counts milliseconds since 1970, so it is
\* larger than every cooldown the model configures.
StartTime == 10000

(***************************************************************************)
(* Generic helpers for JavaScript Map objects: a Map is a function whose   *)
(* DOMAIN is the set of keys that were set.                                *)
(***************************************************************************)
EmptyMap == [x \in {} |-> 0]

MapSet(m, k, v) == [x \in (DOMAIN m) \cup {k} |-> IF x = k THEN v ELSE m[x]]

MapDelete(m, k) == [x \in (DOMAIN m) \ {k} |-> m[x]]

(***************************************************************************)
(* Rate limiter (src/src/rate-limiter.ts).                                 *)
(***************************************************************************)
\* The ISO 8601 durations the model configures.
Durations == {"PT0S", "PT1S", "PT2S"}

\* parseISO8601Duration: toSeconds(parse(duration)) * 1000.
parseISO8601Duration(duration) ==
    CASE duration = "PT0S" -> 0 * 1000
      [] duration = "PT1S" -> 1 * 1000
      [] duration = "PT2S" -> 2 * 1000

Edges == {"leading", "trailing"}

\* The keys the limiter is consulted with: the canonical event types of
\* the pipeline that owns a limiter.
Keys == {"session.idle", "session.error", "permission.asked"}

\* The keys the limiter is called with when it is exercised on its own.
RLKeys == {"session.idle", "session.error"}

\* A limiter object: the closure state of the three createXRateLimiter
\* functions.  throttledFns maps a key to the lastExec of its throttled
\* function; debouncedFns is the set of keys that own a debounced function
\* and timers maps a key to the deadline of its pending setTimeout.
NewLimiter(kind, durationMs) ==
    [kind          |-> kind,
     durationMs    |-> durationMs,
     allowed       |-> FALSE,
     throttledFns  |-> EmptyMap,
     pendingFire   |-> EmptyMap,
     debouncedFns  |-> {},
     timers        |-> EmptyMap]

createLeadingRateLimiter(durationMs) == NewLimiter("leading", durationMs)

createTrailingRateLimiter(durationMs) == NewLimiter("trailing", durationMs)

\* Mutant: no special case for a zero duration.
createRateLimiterNoZeroCheck(options) ==
    LET durationMs == parseISO8601Duration(options.duration) IN
    IF options.edge = "leading" THEN createLeadingRateLimiter(durationMs)
    ELSE createTrailingRateLimiter(durationMs)

\* createRateLimiter: a zero duration gives { shouldAllow: () => true }.
createRateLimiter(options) ==
    LET durationMs == parseISO8601Duration(options.duration) IN
    IF durationMs = 0 THEN NewLimiter("zero", durationMs)
    ELSE IF options.edge = "leading" THEN createLeadingRateLimiter(durationMs)
    ELSE createTrailingRateLimiter(durationMs)

\* getThrottledFn: the existing throttled function of the key, or a new one
\* (throttle-debounce starts a wrapper with lastExec = 0).
getThrottledFn(throttledFns, eventType) ==
    IF eventType \in DOMAIN throttledFns THEN throttledFns
    ELSE MapSet(throttledFns, eventType, 0)

\* Mutant: denied calls extend the window (lastExec is set on every call).
throttleExtending(lastExec, delay, t) ==
    [lastExec |-> t, exec |-> (t - lastExec) > delay]

\* Mutant: an allowed call does not record when it ran.
throttleNotRecording(lastExec, delay, t) ==
    [lastExec |-> lastExec, exec |-> (t - lastExec) > delay]

\* One call of a function made by throttle(delay, cb, {noTrailing: true}):
\* the callback runs iff strictly more than delay has elapsed since lastExec.
throttle(lastExec, delay, t) ==
    LET elapsed == t - lastExec IN
    IF elapsed > delay THEN [lastExec |-> t, exec |-> TRUE]
    ELSE [lastExec |-> lastExec, exec |-> FALSE]

\* Mutant: one throttled function shared by all event types.
LeadingShouldAllowShared(l, eventType, t) ==
    LET fns == getThrottledFn(l.throttledFns, eventType)
        last == IF \E k \in DOMAIN fns : fns[k] > fns[eventType]
                THEN CHOOSE v \in {fns[k] : k \in DOMAIN fns} :
                        \A k \in DOMAIN fns : fns[k] <= v
                ELSE fns[eventType]
        r == throttle(last, l.durationMs, t)
    IN [lim |-> [l EXCEPT !.allowed = r.exec,
                          !.throttledFns = MapSet(fns, eventType, r.lastExec)],
        result |-> r.exec]

\* shouldAllow of createLeadingRateLimiter.
LeadingShouldAllow(l, eventType, t) ==
    LET fns == getThrottledFn(l.throttledFns, eventType)
        r == throttle(fns[eventType], l.durationMs, t)
    IN [lim |-> [l EXCEPT !.allowed = r.exec,
                          !.throttledFns = MapSet(fns, eventType, r.lastExec)],
        result |-> r.exec]

\* Mutant: a call leaves a pending quiet-period timer alone.
debounceNoRestart(timers, eventType, delay, t) ==
    IF eventType \in DOMAIN timers THEN timers
    ELSE MapSet(timers, eventType, t + delay)

\* One call of a function made by debounce(delay, cb): clear the pending
\* timeout and set a new one that runs the callback delay ms from now.
debounce(timers, eventType, delay, t) == MapSet(timers, eventType, t + delay)

\* shouldAllow of createTrailingRateLimiter.
TrailingShouldAllow(l, eventType, t) ==
    LET fired == eventType \in DOMAIN l.pendingFire /\ l.pendingFire[eventType]
        pf == IF fired THEN MapSet(l.pendingFire, eventType, FALSE)
              ELSE l.pendingFire
    IN [lim |-> [l EXCEPT !.pendingFire = pf,
                          !.debouncedFns = @ \cup {eventType},
                          !.timers = debounce(@, eventType, l.durationMs, t)],
        result |-> fired]

\* RateLimiter.shouldAllow: the new limiter state and the value returned.
shouldAllow(l, eventType, t) ==
    CASE l.kind = "zero" -> [lim |-> l, result |-> TRUE]
      [] l.kind = "leading" -> LeadingShouldAllow(l, eventType, t)
      [] l.kind = "trailing" -> TrailingShouldAllow(l, eventType, t)

\* A setTimeout of the key is due at time t.
TimerDue(l, k, t) == k \in DOMAIN l.timers /\ t >= l.timers[k]

\* The debounce callback of createTrailingRateLimiter.
debounceCallback(l, k) ==
    [l EXCEPT !.pendingFire = MapSet(@, k, TRUE), !.timers = MapDelete(@, k)]

VARIABLES
    now,          \* Date.now()
    ticks,        \* number of Ticks taken
    rateLimiter,  \* the limiter: under test, or the one the plugin created
    refLimiter,   \* the same limiter fed the same calls except those on k1
    k1,           \* the key whose calls refLimiter does not see
    lastCall,     \* the most recent shouldAllow call and what preceded it
    hist,         \* per key: what the calls so far returned, and when
    variant,      \* which snapshot of createNotificationPlugin is running
    config,       \* the NotificationSDKConfig the plugin was created with
    inv           \* the invocations of the hooks, one per slot

vars == <<now, ticks, rateLimiter, refLimiter, k1, lastCall, hist,
          variant, config, inv>>

rlVars == <<refLimiter, k1, lastCall, hist>>

pipeVars == <<variant, config, inv>>

NoCall == [made |-> FALSE]

NoHist == [called |-> FALSE, lastCallAt |-> 0, everTrue |-> FALSE,
           lastTrueAt |-> 0]

(***************************************************************************)
(* The limiter on its own: any calls, at any times.                        *)
(***************************************************************************)
InitRL ==
    /\ now = StartTime
    /\ ticks = 0
    /\ \E d \in Durations, e \in Edges :
          /\ rateLimiter = createRateLimiter([duration |-> d, edge |-> e])
          /\ refLimiter = createRateLimiter([duration |-> d, edge |-> e])
    /\ k1 \in RLKeys
    /\ lastCall = NoCall
    /\ hist = [k \in RLKeys |-> NoHist]
    /\ variant = "none"
    /\ config = <<>>
    /\ inv = <<>>

\* limiter.shouldAllow(k) is called now.
RLCall(k) ==
    LET r == shouldAllow(rateLimiter, k, now)
        rr == shouldAllow(refLimiter, k, now)
    IN /\ rateLimiter' = r.lim
       /\ refLimiter' = IF k = k1 THEN refLimiter ELSE rr.lim
       /\ lastCall' = [made |-> TRUE, key |-> k, at |-> now, result |-> r.result,
                       refResult |-> IF k = k1 THEN r.result ELSE rr.result,
                       prev |-> hist[k],
                       timerSet |-> k \in DOMAIN r.lim.timers
                                    /\ r.lim.timers[k] = now + rateLimiter.durationMs]
       /\ hist' = [hist EXCEPT ![k] =
                     [called |-> TRUE, lastCallAt |-> now,
                      everTrue |-> @.everTrue \/ r.result,
                      lastTrueAt |-> IF r.result THEN now ELSE @.lastTrueAt]]
       /\ UNCHANGED <<now, ticks, k1>>
       /\ UNCHANGED pipeVars

\* The event loop runs the due setTimeout callback of key k.
RLTimerFire(k) ==
    /\ TimerDue(rateLimiter, k, now) \/ TimerDue(refLimiter, k, now)
    /\ rateLimiter' = IF TimerDue(rateLimiter, k, now)
                      THEN debounceCallback(rateLimiter, k) ELSE rateLimiter
    /\ refLimiter' = IF TimerDue(refLimiter, k, now)
                     THEN debounceCallback(refLimiter, k) ELSE refLimiter
    /\ UNCHANGED <<now, ticks, k1, lastCall, hist>>
    /\ UNCHANGED pipeVars

\* Time passes.  A plugin without a limiter never reads the clock.
Tick ==
    /\ rateLimiter.kind \in {"zero", "leading", "trailing"}
    /\ ticks < MaxTicks
    /\ now' = now + TickMs
    /\ ticks' = ticks + 1
    /\ UNCHANGED <<rateLimiter, refLimiter, k1, lastCall, hist>>
    /\ UNCHANGED pipeVars

NextRL ==
    \/ \E k \in RLKeys : RLCall(k)
    \/ \E k \in RLKeys : RLTimerFire(k)
    \/ Tick

SpecRL == InitRL /\ [][NextRL]_vars

(***************************************************************************)
(* The decision pipeline: createNotificationPlugin and its event hook.     *)
(* Two snapshots of src/src/plugin-factory.ts are modelled:                *)
(*   "limited" : lines 1-230, resolveAndSend with rate limiter, templates  *)
(*   "plain"   : lines 232-424, sendNotification without either            *)
(***************************************************************************)
\* Number of hook invocations that may be in flight at once.
MaxInflight == 2
\* Number of Ticks a behaviour of the plugin may take.
MaxPipeTicks == 2

Handlers == 1 .. MaxInflight

\* The snapshots of src/src/plugin-factory.ts.
Variants == {"limited", "plain"}

\* JavaScript undefined / null, where a string is expected.
Undefined == "undefined"

\* x ?? d
Nullish(x, d) == IF x = Undefined THEN d ELSE x

\* Boolean(x) of a string or undefined.
Truthy(x) == x # Undefined /\ x # ""

\* A JavaScript value of unknown type (an event's properties, a parsed JSON
\* text) is a record that carries its type; an object carries its
\* properties as a function from keys to values, and a property that is
\* absent reads as undefined.
JUndefined == [type |-> "undefined"]

JNull == [type |-> "null"]

JBool(b) == [type |-> "boolean", value |-> b]

JString(str) == [type |-> "string", value |-> str]

\* A number literal within the range of a double.
JNumber == [type |-> "number", value |-> "42"]

\* An array with the elements given.
JArray(items) == [type |-> "array", items |-> items]

\* An object with the fields given; a field given as undefined is absent.
JObject(fields) ==
    [type |-> "object",
     props |-> [k \in {x \in DOMAIN fields : fields[x].type # "undefined"} |->
                  fields[k]]]

\* value[key] of a record.
Prop(value, key) ==
    IF key \in DOMAIN value.props THEN value.props[key] ELSE JUndefined

\* isRecord: typeof value === "object" && value !== null && !Array.isArray(value)
isRecord(value) == value.type = "object"

\* The raw host event types the model dispatches; "message.updated" stands
\* for every type the hook does not recognise.
RawTypes == Keys \cup {"message.updated"}

\* The properties a permission.asked event is expected to carry.
PermissionProperties ==
    JObject([sessionID |-> JString("sess-1"), type |-> JString("file.write"),
             pattern |-> JString("/tmp/*.txt")])

\* The host events: session.idle always carries a sessionID string,
\* session.error may lack it, permission.asked carries its properties.
HostEvents ==
    {[type |-> "session.idle", sessionID |-> s] : s \in {"", "sess-1"}}
    \cup {[type |-> "session.error", sessionID |-> s] :
             s \in {Undefined, "", "sess-1"}}
    \cup {[type |-> "permission.asked", sessionID |-> "sess-1",
             properties |-> PermissionProperties]}
    \cup {[type |-> "message.updated", sessionID |-> "sess-1"]}

\* What client.session.get can answer: it throws, or it returns data
\* (possibly undefined) with a parentID (possibly undefined or empty).
SessionResponses ==
    {[throws |-> TRUE, hasData |-> FALSE, parentID |-> Undefined],
     [throws |-> FALSE, hasData |-> FALSE, parentID |-> Undefined],
     [throws |-> FALSE, hasData |-> TRUE, parentID |-> Undefined],
     [throws |-> FALSE, hasData |-> TRUE, parentID |-> ""],
     [throws |-> FALSE, hasData |-> TRUE, parentID |-> "parent-1"]}

\* What a template command can do.
ExecOutcomes == {"output", "blank", "nonzero", "throws"}

\* What backend.send can do.
SendOutcomes == {"ok", "throws"}

\* rateLimiter === null
NullLimiter == NewLimiter("null", 0)

\* DEFAULT_TITLES / getDefaultTitle (src/src/defaults.ts).
DEFAULT_TITLES ==
    [k \in {"session.complete", "subagent.complete", "session.error",
            "permission.requested", "question.asked"} |->
        CASE k = "session.complete" -> "Agent Idle"
          [] k = "subagent.complete" -> "Sub-agent Complete"
          [] k = "session.error" -> "Agent Error"
          [] k = "permission.requested" -> "Permission Requested"
          [] k = "question.asked" -> "Question Asked"]

\* The table of defaults that goes with the kinds session.idle,
\* session.error and permission.asked of the later plugin-factory.ts
\* (Record<NotificationEvent, string>, so complete for those three kinds).
\* That revision of defaults.ts is not among the sources; the values are
\* those the project documents (src/PLAN.md:376-382).
LaterDefaults ==
    [k \in {"session.idle", "session.error", "permission.asked"} |->
        CASE k = "session.idle" ->
                [title |-> "Agent Idle",
                 message |-> "The agent has finished and is waiting for input."]
          [] k = "session.error" ->
                [title |-> "Agent Error",
                 message |-> "An error occurred. Check the session for details."]
          [] k = "permission.asked" ->
                [title |-> "Permission Asked",
                 message |-> "The agent needs permission to continue."]]

getDefaultTitle(event) ==
    IF event \in DOMAIN DEFAULT_TITLES THEN DEFAULT_TITLES[event]
    ELSE IF event \in DOMAIN LaterDefaults THEN LaterDefaults[event].title
    ELSE Undefined

\* DEFAULT_MESSAGES / getDefaultMessage (src/src/defaults.ts).
DEFAULT_MESSAGES ==
    [k \in {"session.complete", "subagent.complete", "session.error",
            "permission.requested", "question.asked"} |->
        CASE k = "session.complete" ->
                "The agent has finished and is waiting for input."
          [] k = "subagent.complete" -> "A sub-agent has completed its task."
          [] k = "session.error" ->
                "An error occurred. Check the session for details."
          [] k = "permission.requested" ->
                "The agent needs permission to continue."
          [] k = "question.asked" ->
                "The agent has a question and is waiting for your answer."]

getDefaultMessage(event) ==
    IF event \in DOMAIN DEFAULT_MESSAGES THEN DEFAULT_MESSAGES[event]
    ELSE IF event \in DOMAIN LaterDefaults THEN LaterDefaults[event].message
    ELSE Undefined

\* One invocation of a hook.  pc is the await the invocation is suspended
\* at ("lookup", "title", "message", "send"), "done" once its promise has
\* settled, "free" for an unused slot.  lookups, limiterCalls, execs and
\* sends count the calls of client.session.get, rateLimiter.shouldAllow,
\* the shell and backend.send the invocation has made.  since is the time
\* between the last allowed limiter check of the kind and the check of this
\* invocation, -1 when there was none.
FreeSlot ==
    [pc |-> "free", hook |-> "none", type |-> "none", sessionID |-> "",
     kind |-> "none", title |-> "", message |-> "",
     lookups |-> 0, lookup |-> "none", limiterCalls |-> 0, allowed |-> "none",
     since |-> -1,
     execs |-> 0, sends |-> 0, sendOutcome |-> "none",
     outcome |-> "pending", result |-> "pending",
     properties |-> JUndefined, metadata |-> <<>>, context |-> <<>>]

\* const props: unknown = "properties" in event ? event.properties : undefined
NewInvocation(hook, event) ==
    [FreeSlot EXCEPT !.pc = "running", !.hook = hook, !.type = event.type,
                     !.sessionID = Nullish(event.sessionID, ""),
                     !.properties = IF "properties" \in DOMAIN event
                                    THEN event.properties ELSE JUndefined]

\* The invocation returns without a sink call.
Drop(r) == [r EXCEPT !.pc = "done", !.outcome = "dropped", !.result = "resolved"]

\* Mutant: the sink is handed a context that was not built from the
\* event of the invocation that calls it.
SendCallOfOtherEvent(r) ==
    [r EXCEPT !.pc = "send", !.sends = @ + 1,
              !.context = <<[event |-> r.kind, title |-> r.title,
                             message |-> r.message, sessionId |-> "",
                             metadata |-> <<>>]>>]

\* backend.send({ event, title, message, metadata }) is called and
\* awaited; context is the object the sink is handed, built from the
\* locals of this invocation.
SendCall(r) ==
    [r EXCEPT !.pc = "send", !.sends = @ + 1,
              !.context = <<[event |-> r.kind, title |-> r.title,
                             message |-> r.message, sessionId |-> r.sessionID,
                             metadata |-> r.metadata]>>]

\* config.templates?.[notificationEvent] ?? null, then ?.titleCmd ?? null
\* and ?.messageCmd ?? null.
titleCmdOf(c, event) ==
    IF c.templates = <<>> THEN "null" ELSE c.templates[1][event].titleCmd

messageCmdOf(c, event) ==
    IF c.templates = <<>> THEN "null" ELSE c.templates[1][event].messageCmd

\* resolveField for the message up to its first await, then backend.send.
MessageStage(r) ==
    IF messageCmdOf(config, r.kind) = "null"
    THEN SendCall([r EXCEPT !.message = getDefaultMessage(r.kind)])
    ELSE [r EXCEPT !.pc = "message", !.execs = @ + 1]

\* resolveField for the title up to its first await.
TitleStage(r) ==
    IF titleCmdOf(config, r.kind) = "null"
    THEN MessageStage([r EXCEPT !.title = getDefaultTitle(r.kind)])
    ELSE [r EXCEPT !.pc = "title", !.execs = @ + 1]

\* Mutant: the trimmed output is returned without the test for "".
resolveFieldResultKeepingBlank(outcome, fallback) ==
    IF outcome = "output" THEN "stdout"
    ELSE IF outcome = "blank" THEN "" ELSE fallback

\* resolveField after the command returned: trimmed stdout, or the
\* fallback on a throw, a non-zero exit or empty output.
resolveFieldResult(outcome, fallback) ==
    IF outcome = "output" THEN "stdout" ELSE fallback

\* The snapshots of the legacy plugin: "legacy" resolves fields with the
\* resolveField of src/unnamed/part_013 (try/catch around the shell),
\* "legacy014" with the one of src/unnamed/part_014 (no try/catch).
LegacyVariants == {"legacy", "legacy014"}

\* resolveField of src/unnamed/part_014 awaits the shell outside any try:
\* a throwing shell rejects resolveField and, through the awaits of the
\* hook, the hook's promise.
resolveFieldRejects(v, outcome) == v = "legacy014" /\ outcome = "throws"

\* The invocation's promise rejects before the sink was called.
Reject(r) == [r EXCEPT !.pc = "done", !.outcome = "failed", !.result = "rejected"]

\* No limiter check of a kind was allowed yet.
NoneAllowed == [everTrue |-> FALSE, lastTrueAt |-> 0]

\* The time since the last allowed limiter check of the kind, -1 if none.
SinceAllowed(event, t) ==
    IF hist[event].everTrue THEN t - hist[event].lastTrueAt ELSE -1

\* Mutant: the limiter is consulted with one key for all event kinds.
resolveAndSendSharedKey(r, lim, t) ==
    IF lim.kind # "null"
    THEN LET a == shouldAllow(lim, "notification", t)
             q == [r EXCEPT !.limiterCalls = @ + 1,
                            !.allowed = IF a.result THEN "yes" ELSE "no",
                            !.since = SinceAllowed(r.kind, t)]
         IN [inv |-> IF a.result THEN TitleStage(q) ELSE Drop(q),
             lim |-> a.lim]
    ELSE [inv |-> TitleStage(r), lim |-> lim]

\* Mutant: the limiter answers without taking note of the check.
resolveAndSendNotConsuming(r, lim, t) ==
    IF lim.kind # "null"
    THEN LET a == shouldAllow(lim, r.kind, t)
             q == [r EXCEPT !.limiterCalls = @ + 1,
                            !.allowed = IF a.result THEN "yes" ELSE "no",
                            !.since = SinceAllowed(r.kind, t)]
         IN [inv |-> IF a.result THEN TitleStage(q) ELSE Drop(q),
             lim |-> lim]
    ELSE [inv |-> TitleStage(r), lim |-> lim]

\* Mutant: a denied event is delivered all the same.
resolveAndSendDeliveringDenied(r, lim, t) ==
    IF lim.kind # "null"
    THEN LET a == shouldAllow(lim, r.kind, t)
             q == [r EXCEPT !.limiterCalls = @ + 1,
                            !.allowed = IF a.result THEN "yes" ELSE "no",
                            !.since = SinceAllowed(r.kind, t)]
         IN [inv |-> TitleStage(q), lim |-> a.lim]
    ELSE [inv |-> TitleStage(r), lim |-> lim]

\* resolveAndSend up to its first await.
resolveAndSend(r, lim, t) ==
    IF lim.kind # "null"
    THEN LET a == shouldAllow(lim, r.kind, t)
             q == [r EXCEPT !.limiterCalls = @ + 1,
                            !.allowed = IF a.result THEN "yes" ELSE "no",
                            !.since = SinceAllowed(r.kind, t)]
         IN [inv |-> IF a.result THEN TitleStage(q) ELSE Drop(q),
             lim |-> a.lim]
    ELSE [inv |-> TitleStage(r), lim |-> lim]

\* sendNotification up to its await.
sendNotification(r, lim) == [inv |-> SendCall(r), lim |-> lim]

\* Mutant: the limiter is created anew for every delivery.
DeliverFreshLimiter(r, lim, t) ==
    IF variant = "limited"
    THEN resolveAndSend(r, IF config.cooldown # <<>>
                           THEN createRateLimiter(config.cooldown[1])
                           ELSE lim, t)
    ELSE sendNotification(r, lim)

\* The delivery step of the snapshot.
Deliver(r, lim, t) ==
    IF variant = "limited" THEN resolveAndSend(r, lim, t)
    ELSE sendNotification(r, lim)

\* if (!config.enabled) return;
globallyDisabledAlwaysFalse(c) == FALSE

globallyDisabled(c) == ~c.enabled

\* if (!config.events[notificationEvent].enabled) return;
kindDisabled(c, event) == ~c.events[event].enabled

\* Mutant: an unrecognised type is handled like session.idle.
classifyDefaultIdle(type) ==
    IF type \in Keys THEN type ELSE "session.idle"

\* The branch of the event hook a raw event type selects.
classify(type) ==
    IF type \in {"permission.asked", "session.idle", "session.error"}
    THEN type ELSE "none"

\* Mutant: a failed lookup counts as a child session.
isChildSessionFailClosed(response) ==
    IF response.throws THEN TRUE
    ELSE response.hasData /\ Truthy(response.parentID)

\* Mutant: parentID is read from the response instead of response.data.
isChildSessionWrongField(response) == FALSE

\* isChildSession after client.session.get settled:
\* Boolean(response.data?.parentID), false when the call threw.
isChildSession(response) ==
    IF response.throws THEN FALSE
    ELSE response.hasData /\ Truthy(response.parentID)

\* Mutant: the session is looked up whatever the id.
isSubagentSessionLooksUpAlways(sessionID) == TRUE

\* isSubagentSession: whether it calls client.session.get for the id.
isSubagentSessionLooksUp(sessionID) == sessionID # ""

\* Mutant: the limiter is consulted before the child session and the
\* per-kind switch are looked at.
AfterSubagentCheckLimitingFirst(r, isSubagent, lim, t) ==
    IF isSubagent \/ (variant = "limited" /\ kindDisabled(config, r.kind))
    THEN [inv |-> Drop(r), lim |-> Deliver(r, lim, t).lim]
    ELSE Deliver(r, lim, t)

\* The rest of the session.idle / session.error branch once isSubagent is
\* known.  The limited snapshot checks the per-kind switch here, the plain
\* snapshot did so before the lookup.
AfterSubagentCheck(r, isSubagent, lim, t) ==
    IF isSubagent THEN [inv |-> Drop(r), lim |-> lim]
    ELSE IF variant = "limited" /\ kindDisabled(config, r.kind)
    THEN [inv |-> Drop(r), lim |-> lim]
    ELSE Deliver(r, lim, t)

\* Subagent suppression up to its await.  session.idle always calls
\* isSubagentSession; session.error only for a non-empty sessionID.
SubagentCheck(r, lim, t) ==
    LET sessionID == Nullish(r.sessionID, "")
        called == r.kind = "session.idle" \/ sessionID # ""
    IN IF called /\ isSubagentSessionLooksUp(sessionID)
       THEN [inv |-> [r EXCEPT !.pc = "lookup", !.lookups = @ + 1], lim |-> lim]
       ELSE AfterSubagentCheck(r, FALSE, lim, t)

\* typeof p === "string" of an element of props.pattern.
IsString(p) == p.type = "string"

\* Mutant: the string elements of a mixed array are kept as the pattern.
permissionPropsFiltering(props) ==
    IF ~isRecord(props)
    THEN [sessionID |-> "", type |-> "", pattern |-> JUndefined]
    ELSE LET sessionID == Prop(props, "sessionID")
             permType == Prop(props, "type")
             pattern == Prop(props, "pattern")
         IN [sessionID |-> IF IsString(sessionID) THEN sessionID.value ELSE "",
             type |-> IF IsString(permType) THEN permType.value ELSE "",
             pattern |-> IF IsString(pattern) THEN pattern
                         ELSE IF pattern.type = "array"
                         THEN JArray(SelectSeq(pattern.items, IsString))
                         ELSE JUndefined]

\* permissionProps of the permission.asked branch: sessionID and type are
\* the strings of the properties or "", pattern is the string or the
\* all-string array of the properties or undefined.
permissionProps(props) ==
    IF ~isRecord(props)
    THEN [sessionID |-> "", type |-> "", pattern |-> JUndefined]
    ELSE LET sessionID == Prop(props, "sessionID")
             permType == Prop(props, "type")
             pattern == Prop(props, "pattern")
         IN [sessionID |-> IF IsString(sessionID) THEN sessionID.value ELSE "",
             type |-> IF IsString(permType) THEN permType.value ELSE "",
             pattern |->
                 IF IsString(pattern) THEN pattern
                 ELSE IF /\ pattern.type = "array"
                         /\ \A i \in DOMAIN pattern.items :
                                IsString(pattern.items[i])
                 THEN pattern
                 ELSE JUndefined]

\* extractPermissionMetadata: the session id and the permission type as
\* given, a single pattern as a one-element list, a list as it is, no
\* pattern as undefined.
extractPermissionMetadata(properties) ==
    [sessionId |-> properties.sessionID,
     isSubagent |-> FALSE,
     permissionType |-> properties.type,
     permissionPatterns |->
         IF IsString(properties.pattern) THEN JArray(<<properties.pattern>>)
         ELSE properties.pattern]

\* Mutant: permission.asked goes through subagent suppression as well.
eventHookSuppressingPermission(event, lim, t) ==
    LET r0 == NewInvocation("event", event)
        r == [r0 EXCEPT !.kind = classify(event.type)]
    IN IF globallyDisabled(config) THEN [inv |-> Drop(r0), lim |-> lim]
       ELSE IF r.kind \in {"permission.asked", "session.idle", "session.error"}
       THEN IF variant = "plain" /\ kindDisabled(config, r.kind)
            THEN [inv |-> Drop(r), lim |-> lim]
            ELSE SubagentCheck(r, lim, t)
       ELSE [inv |-> Drop(r), lim |-> lim]

\* The event hook up to its first await.
eventHook(event, lim, t) ==
    LET r0 == NewInvocation("event", event)
        r == [r0 EXCEPT !.kind = classify(event.type)]
    IN IF globallyDisabled(config) THEN [inv |-> Drop(r0), lim |-> lim]
       ELSE IF r.kind = "permission.asked"
       THEN IF kindDisabled(config, r.kind) THEN [inv |-> Drop(r), lim |-> lim]
            ELSE Deliver([r EXCEPT !.metadata =
                             <<extractPermissionMetadata(
                                   permissionProps(r.properties))>>],
                         lim, t)
       ELSE IF r.kind \in {"session.idle", "session.error"}
       THEN IF variant = "plain" /\ kindDisabled(config, r.kind)
            THEN [inv |-> Drop(r), lim |-> lim]
            ELSE SubagentCheck(r, lim, t)
       ELSE [inv |-> Drop(r), lim |-> lim]

\* What a lookup answered, as the claims speak of it.
LookupTag(response) ==
    IF response.throws THEN "throws"
    ELSE IF response.hasData /\ response.parentID \notin {Undefined, ""}
    THEN "child" ELSE "root"

\* Mutant: a failed delivery is retried once.
afterSendRetrying(r, outcome) ==
    IF outcome = "throws" /\ r.sends < 2
    THEN [r EXCEPT !.sends = @ + 1, !.sendOutcome = outcome]
    ELSE [r EXCEPT !.pc = "done", !.outcome = "sent", !.result = "resolved",
                   !.sendOutcome = outcome]

\* Mutant: the hook awaits the sink again whatever the sink did.
afterSendAwaitingAgain(r, outcome) == [r EXCEPT !.sendOutcome = outcome]

\* try { await backend.send(...) } catch { }: the hook returns normally
\* whatever the sink did.
afterSend(r, outcome) ==
    [r EXCEPT !.pc = "done", !.outcome = "sent", !.result = "resolved",
              !.sendOutcome = outcome]

(***************************************************************************)
(* The "legacy" snapshot of createNotificationPlugin                        *)
(* (src/unnamed/part_016, lines 83-345): sessions are classified by        *)
(* classifySession under config.subagentNotifications, a second hook       *)
(* handles the question tool, and backend.send is awaited unguarded.       *)
(***************************************************************************)
\* NOTIFICATION_EVENTS (src/src/types.ts).
NOTIFICATION_EVENTS ==
    {"session.complete", "subagent.complete", "session.error",
     "permission.requested", "question.asked"}

SubagentModes == {"always", "never", "separate"}

\* classifySession up to its await: mode always answers without a lookup.
classifySessionLooksUp(subagentMode) == subagentMode # "always"

\* Mutant: every mode classifies like separate.
classifySessionSeparateOnly(isChild, subagentMode) ==
    IF isChild THEN "subagent.complete" ELSE "session.complete"

\* classifySession once isChildSession is known; "null" means ignore.
classifySession(isChild, subagentMode) ==
    IF subagentMode = "always" THEN "session.complete"
    ELSE IF subagentMode = "never"
    THEN IF isChild THEN "null" ELSE "session.complete"
    ELSE IF isChild THEN "subagent.complete" ELSE "session.complete"

\* await backend.send(...) without try/catch: a rejection of the sink
\* rejects the hook's promise.
awaitSendUnguarded(r, outcome) ==
    [r EXCEPT !.pc = "done", !.outcome = "sent", !.sendOutcome = outcome,
              !.result = IF outcome = "throws" THEN "rejected" ELSE "resolved"]

\* The per-kind switch, then title, message and send.
legacyEnabledThenSend(r) ==
    IF kindDisabled(config, r.kind) THEN Drop(r) ELSE TitleStage(r)

\* The session.idle branch once the session is classified.
legacyAfterClassify(r, classifiedEvent) ==
    IF classifiedEvent = "null" THEN Drop(r)
    ELSE legacyEnabledThenSend([r EXCEPT !.kind = classifiedEvent])

\* The event hook of the legacy snapshot up to its first await.
legacyEventHook(event) ==
    LET r == NewInvocation("event", event) IN
    IF globallyDisabled(config) THEN Drop(r)
    ELSE IF event.type = "permission.asked"
    THEN legacyEnabledThenSend([r EXCEPT !.kind = "permission.requested"])
    ELSE IF event.type = "session.idle"
    THEN IF classifySessionLooksUp(config.subagentNotifications)
         THEN [r EXCEPT !.pc = "lookup", !.lookups = @ + 1]
         ELSE legacyAfterClassify(r,
                  classifySession(FALSE, config.subagentNotifications))
    ELSE IF event.type = "session.error"
    THEN legacyEnabledThenSend([r EXCEPT !.kind = "session.error"])
    ELSE Drop(r)

\* The tool.execute.before hook up to its first await.
toolExecuteBefore(tool) ==
    LET r == NewInvocation("tool.execute.before",
                           [type |-> tool, sessionID |-> "sess-1"]) IN
    IF globallyDisabled(config) THEN Drop(r)
    ELSE IF tool # "question" THEN Drop(r)
    ELSE legacyEnabledThenSend([r EXCEPT !.kind = "question.asked"])

\* The configurations the model creates the plugin with.
EventSwitches ==
    {[k \in Keys |-> [enabled |-> k # off]] : off \in Keys \cup {"none"}}

Cooldowns ==
    {<<>>}
    \cup {<<[duration |-> "PT1S", edge |-> e]>> : e \in Edges}

Templates ==
    {<<>>, <<[k \in Keys |-> [titleCmd |-> "cmd", messageCmd |-> "cmd"]]>>}

\* The limited snapshot is configured with a cooldown or with templates.
Configs(v) ==
    IF v = "limited"
    THEN [enabled : BOOLEAN, events : EventSwitches, cooldown : Cooldowns,
          templates : {<<>>}]
         \cup [enabled : BOOLEAN, events : EventSwitches, cooldown : {<<>>},
               templates : Templates]
    ELSE [enabled : BOOLEAN, events : EventSwitches, cooldown : {<<>>},
          templates : {<<>>}]

\* const rateLimiter = config.cooldown ? createRateLimiter(config.cooldown) : null
InitialLimiter(v, c) ==
    IF v = "limited" /\ c.cooldown # <<>> THEN createRateLimiter(c.cooldown[1])
    ELSE NullLimiter

Init ==
    /\ now = StartTime
    /\ ticks = 0
    /\ variant \in Variants
    /\ config \in Configs(variant)
    /\ rateLimiter = InitialLimiter(variant, config)
    /\ inv = [h \in Handlers |-> FreeSlot]
    /\ refLimiter = NullLimiter
    /\ k1 = "none"
    /\ lastCall = NoCall
    /\ hist = [k \in Keys |-> NoneAllowed]

LegacyEventSwitches ==
    {[k \in NOTIFICATION_EVENTS |-> [enabled |-> k # off]] :
        off \in {"none", "session.complete", "permission.requested"}}

LegacyTemplates ==
    {<<>>,
     <<[k \in NOTIFICATION_EVENTS |-> [titleCmd |-> "cmd", messageCmd |-> "cmd"]]>>}

LegacyConfigs ==
    [enabled : BOOLEAN, subagentNotifications : SubagentModes,
     events : LegacyEventSwitches, cooldown : {<<>>},
     templates : LegacyTemplates]

InitLegacy ==
    /\ now = StartTime
    /\ ticks = 0
    /\ variant \in LegacyVariants
    /\ config \in LegacyConfigs
    /\ rateLimiter = NullLimiter
    /\ inv = [h \in Handlers |-> FreeSlot]
    /\ refLimiter = NullLimiter
    /\ k1 = "none"
    /\ lastCall = NoCall
    /\ hist = <<>>

\* No invocation has settled without the host having taken its result.
\* The host takes the result of a settled promise before anything else
\* runs, so a settled invocation is looked at exactly once.
Quiescent == \A g \in Handlers : inv[g].pc # "done"

\* Invocation h continues as r.
Continue(h, r) ==
    /\ Quiescent
    /\ inv' = [inv EXCEPT ![h] = r]

\* The allowed limiter checks so far, per kind, once invocation h
\* continues as r.
Checked(h, r) ==
    IF r.limiterCalls > inv[h].limiterCalls /\ r.allowed = "yes"
    THEN [hist EXCEPT ![r.kind] = [everTrue |-> TRUE, lastTrueAt |-> now]]
    ELSE hist

\* The host passes a tool call to the tool.execute.before hook.
ToolExecuteBefore(h, tool) ==
    /\ inv[h].pc = "free"
    /\ \A g \in Handlers : g < h => inv[g].pc # "free"
    /\ Continue(h, toolExecuteBefore(tool))
    /\ UNCHANGED <<now, ticks, rateLimiter, variant, config>>
    /\ UNCHANGED rlVars

\* The host takes the result of the settled invocation h.
Retire(h) ==
    /\ inv[h].pc = "done"
    /\ inv' = [inv EXCEPT ![h] = FreeSlot]
    /\ UNCHANGED <<now, ticks, rateLimiter, variant, config>>
    /\ UNCHANGED rlVars

\* The host passes an event to the event hook.
Dispatch(h, event) ==
    /\ inv[h].pc = "free"
    /\ \A g \in Handlers : g < h => inv[g].pc # "free"
    /\ LET s == IF variant \in LegacyVariants
                THEN [inv |-> legacyEventHook(event), lim |-> rateLimiter]
                ELSE eventHook(event, rateLimiter, now)
       IN /\ Continue(h, s.inv)
          /\ rateLimiter' = s.lim
          /\ hist' = Checked(h, s.inv)
    /\ UNCHANGED <<now, ticks, variant, config>>
    /\ UNCHANGED <<refLimiter, k1, lastCall>>

\* client.session.get settles.
LookupReturn(h, response) ==
    /\ inv[h].pc = "lookup"
    /\ LET r == [inv[h] EXCEPT !.lookup = LookupTag(response)]
           s == IF variant \in LegacyVariants
                THEN [inv |-> legacyAfterClassify(r,
                                 classifySession(isChildSession(response),
                                                 config.subagentNotifications)),
                      lim |-> rateLimiter]
                ELSE AfterSubagentCheck(r, isChildSession(response),
                                        rateLimiter, now)
       IN /\ Continue(h, s.inv)
          /\ rateLimiter' = s.lim
          /\ hist' = Checked(h, s.inv)
    /\ UNCHANGED <<now, ticks, variant, config>>
    /\ UNCHANGED <<refLimiter, k1, lastCall>>

\* The title command settles.
TitleReturn(h, outcome) ==
    /\ inv[h].pc = "title"
    /\ Continue(h, IF resolveFieldRejects(variant, outcome) THEN Reject(inv[h])
                   ELSE MessageStage([inv[h] EXCEPT !.title =
                      resolveFieldResult(outcome, getDefaultTitle(inv[h].kind))]))
    /\ UNCHANGED <<now, ticks, rateLimiter, variant, config>>
    /\ UNCHANGED rlVars

\* The message command settles.
MessageReturn(h, outcome) ==
    /\ inv[h].pc = "message"
    /\ Continue(h, IF resolveFieldRejects(variant, outcome) THEN Reject(inv[h])
                   ELSE SendCall([inv[h] EXCEPT !.message =
                      resolveFieldResult(outcome, getDefaultMessage(inv[h].kind))]))
    /\ UNCHANGED <<now, ticks, rateLimiter, variant, config>>
    /\ UNCHANGED rlVars

\* backend.send settles.
SendReturn(h, outcome) ==
    /\ inv[h].pc = "send"
    /\ Continue(h, IF variant \in LegacyVariants
                   THEN awaitSendUnguarded(inv[h], outcome)
                   ELSE afterSend(inv[h], outcome))
    /\ UNCHANGED <<now, ticks, rateLimiter, variant, config>>
    /\ UNCHANGED rlVars

\* Time passes for the plugin.
PipeTick ==
    /\ Quiescent
    /\ ticks < MaxPipeTicks
    /\ Tick

\* The event loop runs the due debounce timer of key k.
DebounceTimer(k) ==
    /\ Quiescent
    /\ TimerDue(rateLimiter, k, now)
    /\ rateLimiter' = debounceCallback(rateLimiter, k)
    /\ UNCHANGED <<now, ticks, variant, config, inv>>
    /\ UNCHANGED rlVars

Next ==
    \/ \E h \in Handlers, event \in HostEvents : Dispatch(h, event)
    \/ \E h \in Handlers, response \in SessionResponses : LookupReturn(h, response)
    \/ \E h \in Handlers, outcome \in ExecOutcomes : TitleReturn(h, outcome)
    \/ \E h \in Handlers, outcome \in ExecOutcomes : MessageReturn(h, outcome)
    \/ \E h \in Handlers, outcome \in SendOutcomes : SendReturn(h, outcome)
    \/ \E h \in Handlers : Retire(h)
    \/ \E k \in Keys : DebounceTimer(k)
    \/ PipeTick

\* Every invocation the state knows of.
Invocations == {inv[h] : h \in Handlers}

Spec == Init /\ [][Next]_vars

NextLegacy ==
    \/ \E h \in Handlers, event \in HostEvents : Dispatch(h, event)
    \/ \E h \in Handlers, tool \in {"question", "bash"} :
          ToolExecuteBefore(h, tool)
    \/ \E h \in Handlers, response \in SessionResponses : LookupReturn(h, response)
    \/ \E h \in Handlers, outcome \in ExecOutcomes : TitleReturn(h, outcome)
    \/ \E h \in Handlers, outcome \in ExecOutcomes : MessageReturn(h, outcome)
    \/ \E h \in Handlers, outcome \in SendOutcomes : SendReturn(h, outcome)
    \/ \E h \in Handlers : Retire(h)

SpecLegacy == InitLegacy /\ [][NextLegacy]_vars

(***************************************************************************)
(* Properties of the decision pipeline.                                    *)
(***************************************************************************)
\* C1: for every event passed to the event hook, after any earlier events,
\* backend.send is invoked at most once: the invocation ends in exactly one
\* sink call or in a silent drop with none.
C1_AtMostOneSend ==
    \A r \in Invocations :
        /\ r.sends <= 1
        /\ r.pc = "done" =>
              \/ r.outcome = "sent" /\ r.sends = 1
              \/ r.outcome = "dropped" /\ r.sends = 0

\* Witness of C1: an invocation that ended in one sink call, which threw.
C1_Witness ==
    \E r \in Invocations :
        /\ r.pc = "done"
        /\ r.outcome = "sent"
        /\ r.sends = 1
        /\ r.sendOutcome = "throws"

\* C2: a session.idle or session.error event whose kind is switched off in
\* config.events is dropped without client.session.get ever being called
\* for it.
C2_EnableCheckBeforeLookup ==
    \A r \in Invocations :
        (r.type \in {"session.idle", "session.error"}
         /\ kindDisabled(config, r.type)) =>
            /\ r.lookups = 0
            /\ r.pc \in {"free", "done"}
            /\ r.sends = 0

\* C3: a session.idle or session.error event whose session lookup succeeds
\* with a non-empty parentID never reaches the sink.
C3_ChildSessionSuppressed ==
    \A r \in Invocations :
        r.lookup = "child" =>
            /\ r.sends = 0
            /\ r.pc = "done"
            /\ r.outcome = "dropped"

\* Witness of C3: a child-session event of an enabled kind was dropped.
C3_Witness ==
    \E r \in Invocations :
        /\ r.lookup = "child"
        /\ r.sessionID # ""
        /\ r.type \in {"session.idle", "session.error"}
        /\ config.enabled
        /\ ~kindDisabled(config, r.type)
        /\ r.pc = "done"
        /\ r.outcome = "dropped"

\* C4: the session lookup fails open.  When client.session.get throws for
\* a session.idle or session.error event whose kind is enabled and the rate
\* limiter (if any) allows, the sink is called exactly once for it.
C4_LookupFailsOpen ==
    \A r \in Invocations :
        (r.lookup = "throws" /\ ~kindDisabled(config, r.type)
         /\ r.allowed # "no") =>
            /\ r.pc \in {"title", "message", "send", "done"}
            /\ r.pc \in {"send", "done"} => r.sends = 1
            /\ r.pc = "done" => r.outcome = "sent"

\* Witness of C4: the lookup threw, a configured limiter allowed the event
\* and the sink was called once.
C4_Witness ==
    \E r \in Invocations :
        /\ r.lookup = "throws"
        /\ r.allowed = "yes"
        /\ r.pc = "done"
        /\ r.outcome = "sent"
        /\ r.sends = 1

\* C5: when backend.send throws or rejects, the hook's promise still
\* resolves, for every event kind and every hook the plugin registers.
C5_SinkFailureContained ==
    \A r \in Invocations :
        (r.pc = "done" /\ r.sendOutcome = "throws") => r.result = "resolved"

\* C6: with config.enabled false every event is dropped at the first step:
\* no session lookup, no rate-limiter call or state, no template command
\* and no sink call, for any event kind.
C6_GloballyDisabled ==
    ~config.enabled =>
        /\ \A r \in Invocations :
              /\ r.pc \in {"free", "done"}
              /\ r.kind = "none"
              /\ r.lookups = 0 /\ r.limiterCalls = 0
              /\ r.execs = 0 /\ r.sends = 0
              /\ r.pc = "done" => r.outcome = "dropped"
        /\ rateLimiter = InitialLimiter(variant, config)

\* Witness of C6: a recognised event was dropped by the global switch of a
\* plugin that has a cooldown configured.
C6_Witness ==
    /\ ~config.enabled
    /\ config.cooldown # <<>>
    /\ \E r \in Invocations :
          r.pc = "done" /\ r.type = "session.idle" /\ r.outcome = "dropped"

\* C7: an event of an unrecognised raw type is dropped without side
\* effects: no session lookup, no change of the rate-limiter state, no
\* command execution and no sink call.
C7_UnrecognisedDropped ==
    [][\A h \in Handlers :
          (inv[h].pc = "free" /\ inv'[h].pc # "free"
           /\ inv'[h].type \notin {"permission.asked", "session.idle",
                                   "session.error"}) =>
              /\ inv'[h].pc = "done"
              /\ inv'[h].outcome = "dropped"
              /\ inv'[h].result = "resolved"
              /\ inv'[h].lookups = 0 /\ inv'[h].limiterCalls = 0
              /\ inv'[h].execs = 0 /\ inv'[h].sends = 0
              /\ rateLimiter' = rateLimiter]_vars

\* Witness of C7: an unrecognised event was dropped by an enabled plugin
\* whose limiter already holds a window.
C7_Witness ==
    /\ config.enabled
    /\ rateLimiter.kind = "leading"
    /\ DOMAIN rateLimiter.throttledFns # {}
    /\ \E r \in Invocations :
          r.pc = "done" /\ r.type = "message.updated" /\ r.outcome = "dropped"

(***************************************************************************)
(* Properties of the limiter.                                              *)
(***************************************************************************)
\* C8: leading edge, cooldown D > 0, every key.  The first call of a key
\* returns true; a later call made less than D after the most recent call
\* of the key that returned true returns false (denied calls in between do
\* not move the window); a call made more than D after it returns true.
C8_LeadingEdge ==
    (rateLimiter.kind = "leading" /\ lastCall.made) =>
        LET p == lastCall.prev
            D == rateLimiter.durationMs
        IN /\ D > 0
           /\ ~p.called => lastCall.result
           /\ p.called => p.everTrue
           /\ (p.everTrue /\ lastCall.at - p.lastTrueAt < D) => ~lastCall.result
           /\ (p.everTrue /\ lastCall.at - p.lastTrueAt > D) => lastCall.result

\* Witness of C8: a call allowed again more than D after the last allowed
\* call, with a denied call of the same key in between.
C8_Witness ==
    /\ rateLimiter.kind = "leading"
    /\ lastCall.made
    /\ lastCall.result
    /\ lastCall.prev.everTrue
    /\ lastCall.prev.lastCallAt > lastCall.prev.lastTrueAt
    /\ lastCall.at - lastCall.prev.lastTrueAt > rateLimiter.durationMs

\* C30: leading edge, cooldown D.  A call of a key made exactly D after
\* the most recent call of the key that returned true returns true and
\* restarts the window of the key at the time of the call.
C30_LeadingBoundary ==
    (/\ rateLimiter.kind = "leading"
     /\ lastCall.made
     /\ lastCall.prev.everTrue
     /\ lastCall.at - lastCall.prev.lastTrueAt = rateLimiter.durationMs)
    => /\ lastCall.result
       /\ rateLimiter.throttledFns[lastCall.key] = lastCall.at

\* C9: trailing edge, cooldown D.  Every call restarts the quiet-period
\* timer of its key (deadline = now + D); a call returns true only if the
\* key was called before and at least D passed since that previous call;
\* the first call of a key and a call less than D after the previous call
\* of the key return false.
C9_TrailingEdge ==
    (rateLimiter.kind = "trailing" /\ lastCall.made) =>
        LET p == lastCall.prev
            D == rateLimiter.durationMs
        IN /\ lastCall.timerSet
           /\ lastCall.result => (p.called /\ lastCall.at - p.lastCallAt >= D)
           /\ ~p.called => ~lastCall.result
           /\ (p.called /\ lastCall.at - p.lastCallAt < D) => ~lastCall.result

\* Witness of C9: a call that returned true after a quiet period, for a
\* key that had already had an earlier quiet period reported.
C9_Witness ==
    /\ rateLimiter.kind = "trailing"
    /\ lastCall.made
    /\ lastCall.result
    /\ lastCall.prev.everTrue

\* The state a limiter keeps for one key.
PerKeyState(l, k) ==
    [throttled |-> IF k \in DOMAIN l.throttledFns
                   THEN <<l.throttledFns[k]>> ELSE <<>>,
     pending   |-> IF k \in DOMAIN l.pendingFire
                   THEN <<l.pendingFire[k]>> ELSE <<>>,
     debounced |-> k \in l.debouncedFns,
     timer     |-> IF k \in DOMAIN l.timers THEN <<l.timers[k]>> ELSE <<>>]

\* C10: keys never interfere, either edge.  Every call on a key other than
\* k1 returns what it returns when all calls on k1 are removed, and the
\* state kept for such a key is the same with and without the calls on k1.
C10_KeysIndependent ==
    /\ lastCall.made => lastCall.result = lastCall.refResult
    /\ \A k \in RLKeys \ {k1} :
          PerKeyState(rateLimiter, k) = PerKeyState(refLimiter, k)

\* Witness of C10: k1's window is exhausted (its latest call was denied)
\* and a call on another key is allowed all the same.
C10_Witness ==
    /\ rateLimiter.kind = "leading"
    /\ lastCall.made
    /\ lastCall.key # k1
    /\ lastCall.result
    /\ hist[k1].everTrue
    /\ hist[k1].lastCallAt > hist[k1].lastTrueAt
    /\ lastCall.at - hist[k1].lastTrueAt < rateLimiter.durationMs

\* Witness of C10 for the trailing edge: k1's pending firing was consumed
\* and a call on another key still reports its own quiet period.
C10_WitnessTrailing ==
    /\ rateLimiter.kind = "trailing"
    /\ lastCall.made
    /\ lastCall.key # k1
    /\ lastCall.result
    /\ hist[k1].everTrue

(***************************************************************************)
(* C11: a limiter created with a duration of zero (PT0S), with either      *)
(* edge, answers true to every shouldAllow call, whatever the key and      *)
(* however close the calls, and never creates a timer or per-key state.    *)
(***************************************************************************)
C11_ZeroDuration ==
    rateLimiter.durationMs = 0 =>
        /\ lastCall.made => lastCall.result
        /\ \A k \in RLKeys : hist[k].called => hist[k].lastTrueAt = hist[k].lastCallAt
        /\ rateLimiter.throttledFns = EmptyMap
        /\ rateLimiter.pendingFire = EmptyMap
        /\ rateLimiter.debouncedFns = {}
        /\ rateLimiter.timers = EmptyMap

\* A zero-duration limiter was called twice in the same millisecond for one
\* key, after the other key had been called as well.
C11_Witness ==
    /\ rateLimiter.durationMs = 0
    /\ lastCall.made
    /\ lastCall.result
    /\ lastCall.prev.called
    /\ lastCall.prev.lastCallAt = lastCall.at
    /\ \A k \in RLKeys : hist[k].called

(***************************************************************************)
(* C12: with a leading-edge cooldown D the pipeline rate-limits per        *)
(* canonical event kind.  An event whose limiter check comes less than D   *)
(* after the check of the last delivered event of its kind is dropped      *)
(* without a sink call, whatever its session; an event with no delivered   *)
(* predecessor of its kind, or checked more than D after the last          *)
(* delivered one, goes on to exactly one sink call.                        *)
(***************************************************************************)
C12_LeadingCooldownPerKind ==
    \A r \in Invocations :
        (rateLimiter.kind = "leading" /\ r.limiterCalls > 0) =>
            /\ r.limiterCalls = 1
            /\ (r.since >= 0 /\ r.since < rateLimiter.durationMs) =>
                    r.allowed = "no"
            /\ (r.since < 0 \/ r.since > rateLimiter.durationMs) =>
                    r.allowed = "yes"
            /\ r.allowed = "no" =>
                    r.sends = 0 /\ r.pc = "done" /\ r.outcome = "dropped"
            /\ r.allowed = "yes" =>
                    r.sends = 1 /\ r.pc \in {"send", "done"}

\* An event checked more than D after the last delivered event of its kind
\* has reached the sink.
C12_Witness ==
    \E r \in Invocations :
        /\ rateLimiter.kind = "leading"
        /\ r.since > rateLimiter.durationMs
        /\ r.allowed = "yes"
        /\ r.sends = 1
        /\ r.pc = "done"

\* An event is dropped in the millisecond in which another event of its
\* kind, still at the sink, passed the limiter.
C12_WitnessDropped ==
    \E r, q \in Invocations :
        /\ rateLimiter.kind = "leading"
        /\ r.kind = q.kind
        /\ q.allowed = "yes" /\ q.pc = "send"
        /\ r.allowed = "no" /\ r.since = 0 /\ r.sends = 0

C14_PermissionNeverSuppressed ==
    \A r \in Invocations :
        (r.hook = "event" /\ r.type = "permission.asked") =>
            /\ r.lookups = 0
            /\ r.pc # "lookup"
            /\ (config.enabled /\ ~kindDisabled(config, r.type)
                    /\ r.allowed # "no") =>
                  /\ r.pc \in {"title", "message", "send", "done"}
                  /\ r.pc \in {"send", "done"} => r.sends = 1
                  /\ r.pc = "done" => r.outcome = "sent"

\* A permission.asked event of a session is at the sink, without a lookup,
\* when a session.idle event of the same session is suppressed because the
\* lookup answered that the session has a parentID.
C14_Witness ==
    \E r, q \in Invocations :
        /\ r.type = "permission.asked" /\ r.sessionID = "sess-1"
        /\ r.pc = "send" /\ r.sends = 1 /\ r.lookups = 0
        /\ q.type = "session.idle" /\ q.sessionID = "sess-1"
        /\ q.pc = "done" /\ q.lookup = "child" /\ q.outcome = "dropped"

(***************************************************************************)
(* C15: a broken template command never aborts the notification.  When    *)
(* the titleCmd or the messageCmd of an event throws, exits non-zero or    *)
(* prints only whitespace, the field takes the built-in default of the     *)
(* event kind and the invocation goes on: after the title to the message,  *)
(* after the message to exactly one sink call.  The other field is         *)
(* resolved from what its own command did.                                 *)
(***************************************************************************)
C15_BrokenCommandDegrades ==
    [][\A h \in Handlers :
          /\ \A outcome \in {"blank", "nonzero", "throws"} :
                /\ TitleReturn(h, outcome) =>
                      /\ inv'[h].title = getDefaultTitle(inv[h].kind)
                      /\ inv'[h].pc \in {"message", "send"}
                      /\ inv'[h].result = "pending"
                /\ MessageReturn(h, outcome) =>
                      /\ inv'[h].message = getDefaultMessage(inv[h].kind)
                      /\ inv'[h].title = inv[h].title
                      /\ inv'[h].pc = "send"
                      /\ inv'[h].sends = 1
          /\ MessageReturn(h, "output") =>
                /\ inv'[h].message = "stdout"
                /\ inv'[h].title = inv[h].title
                /\ inv'[h].pc = "send"
                /\ inv'[h].sends = 1
          /\ TitleReturn(h, "output") =>
                /\ inv'[h].title = "stdout"
                /\ inv'[h].pc \in {"message", "send"}]_vars

(***************************************************************************)
(* The template resolver: src/src/templates.ts (two snapshots),            *)
(* src/unnamed/part_013 and src/unnamed/part_014.                          *)
(*                                                                         *)
(* A JavaScript string is a sequence of atoms.  An atom is "{", "}", a     *)
(* whitespace character, or a run of word characters (\w); neighbouring    *)
(* word atoms form one longer run.  The empty string is <<>>.              *)
(***************************************************************************)
\* Longest template, in atoms.
MaxLen == 3
\* Longest stdout of a command, in atoms.
MaxOut == 2

\* Runs of word characters a template is made of: two of the canonical
\* variable names, a property every object inherits, and a name that is
\* neither.
WordAtoms == {"event", "error", "constructor", "unknown_var"}

\* Whitespace, as String.prototype.trim sees it.
SpaceAtoms == {" ", "\n"}

\* The strings over an alphabet of at most n atoms.
Strings(alphabet, n) == UNION {[1 .. m -> alphabet] : m \in 0 .. n}

\* The templates the functions are called with.
TemplateStrings == Strings(WordAtoms \cup {"{", "}", " "}, MaxLen)

\* A template argument of resolveField: null, undefined or a string.
CommandTemplates ==
    {[kind |-> "null", text |-> <<>>], [kind |-> "undefined", text |-> <<>>]}
    \cup {[kind |-> "string", text |-> t] : t \in TemplateStrings}

\* The text of a run of word atoms.
RECURSIVE Key(_)
Key(run) == IF run = <<>> THEN "" ELSE Head(run) \o Key(Tail(run))

\* The last index of the run of word atoms that starts at i (i - 1 if none).
RECURSIVE WordRunEnd(_, _)
WordRunEnd(str, i) ==
    IF i <= Len(str) /\ str[i] \in WordAtoms THEN WordRunEnd(str, i + 1)
    ELSE i - 1

\* /\{(\w+)\}/ tried at index i: the index of the closing brace, 0 when the
\* pattern does not match there.
MatchEnd(str, i) ==
    IF str[i] # "{" THEN 0
    ELSE LET j == WordRunEnd(str, i + 1) IN
         IF j >= i + 1 /\ j + 1 <= Len(str) /\ str[j + 1] = "}" THEN j + 1
         ELSE 0

\* The properties every ordinary object inherits from Object.prototype,
\* with the text String() gives for their values.
ObjectPrototype ==
    [k \in {"constructor", "toString", "valueOf", "hasOwnProperty"} |->
        IF k = "constructor" THEN <<"function Object() { [native code] }">>
        ELSE <<"function " \o k \o "() { [native code] }">>]

\* variables[key]: the own property, else the one found on the prototype
\* chain; <<v>> for the value v, <<>> for undefined.
Get(obj, key) ==
    IF key \in DOMAIN obj.own THEN <<obj.own[key]>>
    ELSE IF obj.proto = "Object.prototype" /\ key \in DOMAIN ObjectPrototype
    THEN <<ObjectPrototype[key]>>
    ELSE <<>>

\* template.replace(/\{(\w+)\}/g, (_, key) => variables[key] ?? "") from
\* index i on: matches are found left to right and do not overlap; the
\* value the callback returns is converted to a string.
RECURSIVE replaceFrom(_, _, _)
replaceFrom(template, i, variables) ==
    IF i > Len(template) THEN <<>>
    ELSE LET e == MatchEnd(template, i) IN
         IF e # 0
         THEN LET v == Get(variables, Key(SubSeq(template, i + 1, e - 1)))
              IN (IF v = <<>> THEN <<>> ELSE v[1])
                 \o replaceFrom(template, e + 1, variables)
         ELSE <<template[i]>> \o replaceFrom(template, i + 1, variables)

\* Mutant: the text that was substituted is searched for placeholders
\* once more.
substituteVariablesAgain(template, variables) ==
    replaceFrom(replaceFrom(template, 1, variables), 1, variables)

substituteVariables(template, variables) == replaceFrom(template, 1, variables)

\* The seven template variables.
CanonicalVariables ==
    {"event", "time", "project", "session_id", "error", "permission_type",
     "permission_patterns"}

\* Array.prototype.join(",") of an array of one-atom strings.
RECURSIVE join(_)
join(arr) ==
    IF arr = <<>> THEN <<>>
    ELSE IF Len(arr) = 1 THEN <<arr[1]>>
    ELSE <<arr[1], ",">> \o join(Tail(arr))

\* The notification contexts the functions are called with.  An optional
\* metadata field that is absent is the empty string or the empty array.
\* The error message of sess-3 is the text "{event}".
Contexts ==
    {[event |-> "session.idle",
      metadata |-> [sessionId |-> "sess-1", projectName |-> "my-project",
                    timestamp |-> "2026-02-16T00:00:00Z", error |-> <<>>,
                    permissionType |-> <<>>, permissionPatterns |-> <<>>]],
     [event |-> "session.error",
      metadata |-> [sessionId |-> "sess-2", projectName |-> "test-proj",
                    timestamp |-> "2026-02-16T12:00:00Z",
                    error |-> <<"Connection timeout">>,
                    permissionType |-> <<>>, permissionPatterns |-> <<>>]],
     [event |-> "session.error",
      metadata |-> [sessionId |-> "sess-3", projectName |-> "test-proj",
                    timestamp |-> "2026-02-16T12:00:00Z",
                    error |-> <<"{", "event", "}">>,
                    permissionType |-> <<>>, permissionPatterns |-> <<>>]],
     [event |-> "permission.asked",
      metadata |-> [sessionId |-> "sess-4", projectName |-> "my-project",
                    timestamp |-> "2026-02-16T00:00:00Z", error |-> <<>>,
                    permissionType |-> <<"file.write">>,
                    permissionPatterns |-> <<"/tmp/*.txt", "/home/*.log">>]]}

\* buildTemplateVariables: an ordinary object with the seven variables as
\* own properties.
buildTemplateVariables(event, metadata) ==
    [proto |-> "Object.prototype",
     own |-> [k \in CanonicalVariables |->
                CASE k = "event" -> <<event>>
                  [] k = "time" -> <<metadata.timestamp>>
                  [] k = "project" -> <<metadata.projectName>>
                  [] k = "session_id" -> <<metadata.sessionId>>
                  [] k = "error" -> metadata.error
                  [] k = "permission_type" -> metadata.permissionType
                  [] k = "permission_patterns" ->
                        join(metadata.permissionPatterns)]]

\* The variables arguments resolveField is called with: what
\* buildTemplateVariables returns, or an object literal of the caller.
VariableObjects ==
    {buildTemplateVariables(c.event, c.metadata) : c \in Contexts}
    \cup {[proto |-> "Object.prototype",
           own |-> [k \in {"event"} |-> <<"session.complete">>]]}

renderTemplate(template, context) ==
    substituteVariables(template,
                        buildTemplateVariables(context.event, context.metadata))

\* String.prototype.trim.
RECURSIVE trimStart(_)
trimStart(str) ==
    IF str # <<>> /\ Head(str) \in SpaceAtoms THEN trimStart(Tail(str)) ELSE str

RECURSIVE trimEnd(_)
trimEnd(str) ==
    IF str # <<>> /\ str[Len(str)] \in SpaceAtoms
    THEN trimEnd(SubSeq(str, 1, Len(str) - 1)) ELSE str

trim(str) == trimEnd(trimStart(str))

\* What awaiting the shell gives: it throws, or a result with an exit code
\* and the text of stdout.
ShellResults ==
    {[throws |-> TRUE, exitCode |-> -1, stdout |-> <<>>]}
    \cup [throws : {FALSE}, exitCode : {0, 1}, stdout : Strings(SpaceAtoms \cup {"ok"}, MaxOut)]

\* The fallback resolveField is called with.
Fallback == <<"fallback">>

\* A call of one of the functions.  pc is "shell" while the call awaits the
\* shell and "settled" once it returned or its promise settled; shellResult
\* has the exit code -1 as long as the shell was not awaited.
IdleCall ==
    [pc |-> "idle", fn |-> "none", snapshot |-> "none", args |-> <<>>,
     command |-> <<>>, shellCalls |-> 0,
     shellResult |-> [throws |-> FALSE, exitCode |-> -1, stdout |-> <<>>],
     result |-> "pending", value |-> <<>>]

\* The shell is called with the command and awaited.
ShellCall(c, command) ==
    [c EXCEPT !.pc = "shell", !.command = command, !.shellCalls = @ + 1]

Resolves(c, value) ==
    [c EXCEPT !.pc = "settled", !.result = "resolved", !.value = value]

Rejects(c) == [c EXCEPT !.pc = "settled", !.result = "rejected"]

\* Mutant: only null counts as no template.
IsNullishStrict(commandTemplate) == commandTemplate.kind = "null"

\* commandTemplate == null
IsNullish(commandTemplate) == commandTemplate.kind \in {"null", "undefined"}

\* resolveField up to its await.  The snapshot of part_014 passes the
\* template to the shell as it is.
resolveField(snapshot, commandTemplate, variables, fallback) ==
    LET c == [IdleCall EXCEPT !.fn = "resolveField", !.snapshot = snapshot,
                  !.args = [commandTemplate |-> commandTemplate,
                            variables |-> variables, fallback |-> fallback]]
    IN IF IsNullish(commandTemplate) THEN Resolves(c, fallback)
       ELSE IF snapshot = "part_014" THEN ShellCall(c, commandTemplate.text)
       ELSE ShellCall(c, substituteVariables(commandTemplate.text, variables))

\* resolveField once the shell settled.  Only the snapshot of templates.ts
\* awaits the shell inside try/catch.
resolveFieldSettled(c, r) ==
    IF r.throws
    THEN IF c.snapshot = "part_014" THEN Rejects(c)
         ELSE Resolves(c, c.args.fallback)
    ELSE LET output == trim(r.stdout) IN
         IF r.exitCode # 0 \/ output = <<>> THEN Resolves(c, c.args.fallback)
         ELSE Resolves(c, output)

\* execCommand up to its await.
execCommand(c, command) == ShellCall(c, command)

\* Mutant: the exit code is not looked at.
execCommandSettledAnyExit(c, r) ==
    IF r.throws THEN Rejects(c) ELSE Resolves(c, trim(r.stdout))

\* execCommand once the shell settled.
execCommandSettled(c, r) ==
    IF r.throws THEN Rejects(c)
    ELSE LET output == trim(r.stdout) IN
         IF r.exitCode # 0 THEN Rejects(c) ELSE Resolves(c, output)

\* execTemplate up to its await.
execTemplate(c, template, context) ==
    execCommand(c, renderTemplate(template, context))

tplVars == <<now, ticks, rateLimiter, refLimiter, k1, lastCall, hist,
             variant, config>>

InitTpl ==
    /\ now = StartTime
    /\ ticks = 0
    /\ rateLimiter = NullLimiter
    /\ refLimiter = NullLimiter
    /\ k1 = "none"
    /\ lastCall = NoCall
    /\ hist = <<>>
    /\ variant = "templates"
    /\ config = <<>>
    /\ inv = IdleCall

\* renderTemplate(template, context) is called and returns.
CallRenderTemplate(template, context) ==
    /\ inv.pc = "idle"
    /\ inv' = [IdleCall EXCEPT !.pc = "settled", !.fn = "renderTemplate",
                  !.args = [template |-> template, context |-> context],
                  !.result = "returned",
                  !.value = renderTemplate(template, context)]
    /\ UNCHANGED tplVars

\* resolveField($, commandTemplate, variables, fallback) is called.
CallResolveField(snapshot, commandTemplate, variables) ==
    /\ inv.pc = "idle"
    /\ inv' = resolveField(snapshot, commandTemplate, variables, Fallback)
    /\ UNCHANGED tplVars

\* execCommand($, command) is called.
CallExecCommand(command) ==
    /\ inv.pc = "idle"
    /\ inv' = execCommand([IdleCall EXCEPT !.fn = "execCommand",
                              !.args = [command |-> command]], command)
    /\ UNCHANGED tplVars

\* execTemplate($, template, context) is called.
CallExecTemplate(template, context) ==
    /\ inv.pc = "idle"
    /\ inv' = execTemplate([IdleCall EXCEPT !.fn = "execTemplate",
                               !.args = [template |-> template,
                                         context |-> context]],
                           template, context)
    /\ UNCHANGED tplVars

\* The awaited shell call settles.
ShellSettles(r) ==
    /\ inv.pc = "shell"
    /\ LET c == [inv EXCEPT !.shellResult = r] IN
       inv' = IF inv.fn = "resolveField" THEN resolveFieldSettled(c, r)
              ELSE execCommandSettled(c, r)
    /\ UNCHANGED tplVars

\* The caller has taken the result; the next call can be made.
CallerContinues ==
    /\ inv.pc = "settled"
    /\ inv' = IdleCall
    /\ UNCHANGED tplVars

NextTpl ==
    \/ /\ inv.pc = "idle"
       /\ \/ \E t \in TemplateStrings, c \in Contexts : CallRenderTemplate(t, c)
          \/ \E s \in {"templates.ts", "part_014"}, t \in CommandTemplates,
                v \in VariableObjects : CallResolveField(s, t, v)
          \/ \E command \in {<<"echo">>, <<"failing-cmd">>} :
                CallExecCommand(command)
          \/ \E t \in TemplateStrings, c \in Contexts : CallExecTemplate(t, c)
    \/ /\ inv.pc = "shell"
       /\ \E r \in ShellResults : ShellSettles(r)
    \/ CallerContinues

SpecTpl == InitTpl /\ [][NextTpl]_vars

(***************************************************************************)
(* Properties of the template resolver.                                    *)
(***************************************************************************)
\* C16: resolveField with a null or undefined template returns the
\* fallback at once and never calls the shell.
C16_NullTemplateFallback ==
    (inv.fn = "resolveField"
        /\ inv.args.commandTemplate.kind \in {"null", "undefined"}) =>
        /\ inv.pc = "settled"
        /\ inv.result = "resolved"
        /\ inv.value = inv.args.fallback
        /\ inv.shellCalls = 0

\* resolveField was called with undefined and gave the fallback.
C16_Witness ==
    /\ inv.fn = "resolveField"
    /\ inv.args.commandTemplate.kind = "undefined"
    /\ inv.pc = "settled"
    /\ inv.value = Fallback
    /\ inv.shellCalls = 0

\* v is str without its leading and trailing whitespace.
IsTrimOf(v, str) ==
    \E a, b \in 0 .. Len(str) :
        /\ a + b <= Len(str)
        /\ v = SubSeq(str, a + 1, Len(str) - b)
        /\ \A i \in 1 .. a : str[i] \in SpaceAtoms
        /\ \A i \in (Len(str) - b + 1) .. Len(str) : str[i] \in SpaceAtoms
        /\ v # <<>> => v[1] \notin SpaceAtoms /\ v[Len(v)] \notin SpaceAtoms

\* C17: resolveField never throws or rejects.  With a template that is not
\* null it resolves to the trimmed stdout when the command exits 0 with
\* output that is not blank, and to the fallback when the shell throws, the
\* command exits non-zero, or the output is empty or only whitespace.
C17_ResolveFieldNeverRejects ==
    (inv.fn = "resolveField" /\ inv.pc = "settled") =>
        /\ inv.result = "resolved"
        /\ inv.args.commandTemplate.kind = "string" =>
              LET r == inv.shellResult
                  good == ~r.throws /\ r.exitCode = 0
                          /\ \E i \in 1 .. Len(r.stdout) :
                                r.stdout[i] \notin SpaceAtoms
              IN /\ inv.shellCalls = 1
                 /\ good => inv.value # <<>> /\ IsTrimOf(inv.value, r.stdout)
                 /\ ~good => inv.value = inv.args.fallback

\* C18: execCommand, and execTemplate which renders its template and hands
\* the command to execCommand, reject when the shell throws or the exit
\* code is not 0, and otherwise resolve to the trimmed stdout, also when
\* that is empty.
C18_ExecCommandRejectsOnFailure ==
    (inv.fn \in {"execCommand", "execTemplate"} /\ inv.pc = "settled") =>
        LET r == inv.shellResult IN
        /\ inv.shellCalls = 1
        /\ inv.fn = "execCommand" => inv.command = inv.args.command
        /\ inv.fn = "execTemplate" =>
              inv.command = renderTemplate(inv.args.template, inv.args.context)
        /\ (r.throws \/ r.exitCode # 0) => inv.result = "rejected"
        /\ (~r.throws /\ r.exitCode = 0) =>
              inv.result = "resolved" /\ IsTrimOf(inv.value, r.stdout)

\* execTemplate resolved to the empty string: its command printed only
\* whitespace and exited 0.
C18_Witness ==
    /\ inv.fn = "execTemplate"
    /\ inv.pc = "settled"
    /\ inv.result = "resolved"
    /\ inv.value = <<>>
    /\ inv.shellResult.stdout # <<>>
    /\ inv.command # inv.args.template

\* execCommand rejected because its command exited non-zero.
C18_WitnessRejected ==
    /\ inv.fn = "execCommand"
    /\ inv.pc = "settled"
    /\ inv.result = "rejected"
    /\ ~inv.shellResult.throws
    /\ inv.shellResult.exitCode # 0

\* The value the canonical variable has in a context.
CanonicalValue(name, context) ==
    CASE name = "event" -> <<context.event>>
      [] name = "time" -> <<context.metadata.timestamp>>
      [] name = "project" -> <<context.metadata.projectName>>
      [] name = "session_id" -> <<context.metadata.sessionId>>
      [] name = "error" -> context.metadata.error
      [] name = "permission_type" -> context.metadata.permissionType
      [] name = "permission_patterns" ->
            join(context.metadata.permissionPatterns)

\* What a template is to render to from index i on: a placeholder is "{",
\* a run of word characters and "}"; it becomes the canonical variable's
\* value, or the empty string for any other name.
RECURSIVE Rendered(_, _, _)
Rendered(template, i, context) ==
    IF i > Len(template) THEN <<>>
    ELSE IF MatchEnd(template, i) # 0
    THEN LET name == Key(SubSeq(template, i + 1, MatchEnd(template, i) - 1))
         IN (IF name \in CanonicalVariables THEN CanonicalValue(name, context)
             ELSE <<>>)
            \o Rendered(template, MatchEnd(template, i) + 1, context)
    ELSE <<template[i]>> \o Rendered(template, i + 1, context)

\* C19: renderTemplate is total: for every template and context it returns
\* (never throws) the template with each {name} placeholder replaced by the
\* value of the canonical variable of that name, or by the empty string
\* when the name is any other run of word characters, the names of
\* inherited object properties such as constructor included; the text
\* outside placeholders is unchanged.
C19_RenderTemplateTotal ==
    (inv.fn = "renderTemplate" /\ inv.pc = "settled") =>
        /\ inv.result = "returned"
        /\ inv.value = Rendered(inv.args.template, 1, inv.args.context)

(***************************************************************************)
(* Configuration parsing: parseConfigFile of src/src/config.ts, in the     *)
(* snapshot of lines 98-138 ("config.ts:98") and in the snapshot of lines  *)
(* 267-367 ("config.ts:267").                                              *)
(*                                                                         *)
(* The text of a configuration file parses to a JSON value.                 *)
(***************************************************************************)
\* The members of NOTIFICATION_EVENTS each snapshot is compiled against:
\* createDefaultConfig returns a Record<NotificationEvent, EventConfig>, so
\* they are the keys of its events.
NotificationEventsOf(snapshot) ==
    IF snapshot = "config.ts:98" THEN Keys ELSE NOTIFICATION_EVENTS

createDefaultConfig(snapshot) ==
    IF snapshot = "config.ts:98"
    THEN [enabled |-> TRUE,
          events |-> [k \in {"session.idle", "session.error",
                             "permission.asked"} |-> [enabled |-> TRUE]],
          backend |-> EmptyMap]
    ELSE [enabled |-> TRUE,
          subagentNotifications |-> "separate",
          cooldown |-> <<>>,
          events |-> [k \in {"session.complete", "subagent.complete",
                             "session.error", "permission.requested",
                             "question.asked"} |-> [enabled |-> TRUE]],
          templates |-> <<>>,
          backends |-> EmptyMap]

\* typeof parsed.enabled === "boolean" ? parsed.enabled : defaults.enabled
parseEnabled(parsed, defaults) ==
    IF Prop(parsed, "enabled").type = "boolean" THEN Prop(parsed, "enabled").value
    ELSE defaults.enabled

\* isRecord(eventVal) && typeof eventVal.enabled === "boolean"
ValidEventEntry(eventVal) ==
    isRecord(eventVal) /\ Prop(eventVal, "enabled").type = "boolean"

\* The keys the loop over the events runs through: NOTIFICATION_EVENTS in
\* the first snapshot, the keys of the default events that are
\* notification events in the second.
LoopKeys(snapshot, events) ==
    IF snapshot = "config.ts:98" THEN NotificationEventsOf(snapshot)
    ELSE {k \in DOMAIN events : k \in NotificationEventsOf(snapshot)}

\* Mutant: every entry of parsed.events is merged over the defaults.
parseEventsAnyKey(snapshot, parsed, defaults) ==
    LET parsedEvents == Prop(parsed, "events") IN
    IF ~isRecord(parsedEvents) THEN defaults.events
    ELSE LET taken == {k \in DOMAIN parsedEvents.props :
                          ValidEventEntry(Prop(parsedEvents, k))}
         IN [k \in (DOMAIN defaults.events) \cup taken |->
               IF k \in taken
               THEN [enabled |-> Prop(Prop(parsedEvents, k), "enabled").value]
               ELSE defaults.events[k]]

\* const events = { ...defaults.events }; then, if parsed.events is a
\* record, events[key] = { enabled: eventVal.enabled } for each key of the
\* loop whose entry is valid.
parseEvents(snapshot, parsed, defaults) ==
    LET parsedEvents == Prop(parsed, "events") IN
    IF ~isRecord(parsedEvents) THEN defaults.events
    ELSE LET taken == {k \in LoopKeys(snapshot, defaults.events) :
                          ValidEventEntry(Prop(parsedEvents, k))}
         IN [k \in (DOMAIN defaults.events) \cup taken |->
               IF k \in taken
               THEN [enabled |-> Prop(Prop(parsedEvents, k), "enabled").value]
               ELSE defaults.events[k]]

\* backend = isRecord(parsed.backend) ? { ...parsed.backend } : defaults.backend
parseBackend(parsed, defaults) ==
    IF isRecord(Prop(parsed, "backend")) THEN Prop(parsed, "backend").props
    ELSE defaults.backend

\* subagentNotifications: a string must be a valid mode, anything else
\* gives the default.
parseSubagentNotifications(parsed, defaults) ==
    LET v == Prop(parsed, "subagentNotifications") IN
    IF v.type = "string"
    THEN [throws |-> v.value \notin SubagentModes, value |-> v.value]
    ELSE [throws |-> FALSE, value |-> defaults.subagentNotifications]

\* cooldown: null, or { duration, edge } of a record, or the default.
parseCooldown(parsed, defaults) ==
    LET v == Prop(parsed, "cooldown") IN
    IF v.type = "null" THEN [throws |-> FALSE, value |-> <<>>]
    ELSE IF isRecord(v)
    THEN LET duration == IF Prop(v, "duration").type = "string"
                         THEN Prop(v, "duration").value ELSE ""
             e == Prop(v, "edge")
         IN IF e.type = "string"
            THEN [throws |-> e.value \notin Edges,
                  value |-> <<[duration |-> duration, edge |-> e.value]>>]
            ELSE [throws |-> FALSE,
                  value |-> <<[duration |-> duration, edge |-> "leading"]>>]
    ELSE [throws |-> FALSE, value |-> defaults.cooldown]

\* templates: null, or the entries of a record that are records, or the
\* default; typeof val.x === "string" ? val.x : null for the two commands.
parseTemplates(parsed, defaults) ==
    LET v == Prop(parsed, "templates")
        StringOrNull(x) == IF x.type = "string" THEN x ELSE JNull
    IN
    IF v.type = "null" THEN <<>>
    ELSE IF isRecord(v)
    THEN <<[k \in {x \in DOMAIN v.props : isRecord(v.props[x])} |->
              [titleCmd |-> StringOrNull(Prop(v.props[k], "titleCmd")),
               messageCmd |-> StringOrNull(Prop(v.props[k], "messageCmd"))]]>>
    ELSE defaults.templates

\* backends: the entries of a record that are records, or the default.
parseBackends(parsed, defaults) ==
    LET v == Prop(parsed, "backends") IN
    IF isRecord(v)
    THEN [k \in {x \in DOMAIN v.props : isRecord(v.props[x])} |-> v.props[k]]
    ELSE defaults.backends

\* parseConfigFile(content), content being what JSON.parse makes of the raw
\* text (valid: a JSON value, otherwise a SyntaxError): it throws an error,
\* or returns a configuration.
parseConfigFile(snapshot, content) ==
    IF ~content.valid
    THEN [threw |-> TRUE, error |-> "Invalid notification config: SyntaxError",
          config |-> <<>>]
    ELSE IF ~isRecord(content.json)
    THEN [threw |-> TRUE,
          error |-> "Invalid notification config: expected a JSON object",
          config |-> <<>>]
    ELSE LET parsed == content.json
             defaults == createDefaultConfig(snapshot)
         IN IF snapshot = "config.ts:98"
            THEN [threw |-> FALSE, error |-> "",
                  config |-> [enabled |-> parseEnabled(parsed, defaults),
                              events |-> parseEvents(snapshot, parsed, defaults),
                              backend |-> parseBackend(parsed, defaults)]]
            ELSE LET sub == parseSubagentNotifications(parsed, defaults)
                     cd == parseCooldown(parsed, defaults)
                 IN IF sub.throws
                    THEN [threw |-> TRUE,
                          error |-> "Invalid notification config: subagentNotifications must be one of",
                          config |-> <<>>]
                    ELSE IF cd.throws
                    THEN [threw |-> TRUE,
                          error |-> "Invalid notification config: cooldown.edge must be one of",
                          config |-> <<>>]
                    ELSE [threw |-> FALSE, error |-> "",
                          config |->
                            [enabled |-> parseEnabled(parsed, defaults),
                             subagentNotifications |-> sub.value,
                             cooldown |-> cd.value,
                             events |-> parseEvents(snapshot, parsed, defaults),
                             templates |-> parseTemplates(parsed, defaults),
                             backends |-> parseBackends(parsed, defaults)]]

\* Mutant: every failure gives the defaults.
loadConfigSwallowing(snapshot, read, content) ==
    IF read # "ok" \/ parseConfigFile(snapshot, content).threw
    THEN [threw |-> FALSE, error |-> "", config |-> createDefaultConfig(snapshot)]
    ELSE parseConfigFile(snapshot, content)

\* Mutant: a missing file is an error like any other.
loadConfigRethrowing(snapshot, read, content) ==
    IF read = "ok" THEN parseConfigFile(snapshot, content)
    ELSE [threw |-> TRUE, error |-> read, config |-> <<>>]

\* loadConfig: the text read is parsed; a read that fails with ENOENT gives
\* the defaults; every other error of the try block, an error of
\* parseConfigFile included (it carries no code), is thrown again.
loadConfig(snapshot, read, content) ==
    IF read = "ok" THEN parseConfigFile(snapshot, content)
    ELSE IF read = "ENOENT"
    THEN [threw |-> FALSE, error |-> "", config |-> createDefaultConfig(snapshot)]
    ELSE [threw |-> TRUE, error |-> read, config |-> <<>>]

\* JSON.stringify followed by JSON.parse, on a value: a number that is not
\* finite is written as null, everything else is written as it is.
RECURSIVE stringify(_)
stringify(value) ==
    IF value.type = "number"
    THEN IF value.value = "Infinity" THEN JNull ELSE value
    ELSE IF value.type = "object"
    THEN [type |-> "object",
          props |-> [k \in DOMAIN value.props |-> stringify(value.props[k])]]
    ELSE value

\* The text JSON.stringify(config) of a configuration, as JSON.parse sees
\* it.
stringifyConfig(snapshot, c) ==
    LET events == JObject([k \in DOMAIN c.events |->
                             JObject([enabled |-> JBool(c.events[k].enabled)])])
        value ==
            IF snapshot = "config.ts:98"
            THEN JObject([enabled |-> JBool(c.enabled), events |-> events,
                          backend |-> JObject(c.backend)])
            ELSE JObject([enabled |-> JBool(c.enabled),
                          subagentNotifications |-> JString(c.subagentNotifications),
                          cooldown |->
                             IF c.cooldown = <<>> THEN JNull
                             ELSE JObject([duration |-> JString(c.cooldown[1].duration),
                                           edge |-> JString(c.cooldown[1].edge)]),
                          events |-> events,
                          templates |->
                             IF c.templates = <<>> THEN JNull
                             ELSE JObject([k \in DOMAIN c.templates[1] |->
                                             JObject(c.templates[1][k])]),
                          backends |-> JObject(c.backends)])
    IN [valid |-> TRUE, json |-> stringify(value)]

\* The keys a document mentions under events are a kind of both snapshots, a
\* kind of the first only, a kind of the second only, and a key that is a
\* kind of neither.
\* The documents: every shape of the events section, and every combination
\* of shapes of the other sections.  JInfinity is a number literal beyond
\* the range of a double (1e999), which JSON.parse reads as Infinity.
Documents ==
    LET MentionKeys ==
            {"session.error", "session.idle", "session.complete", "foo.bar"}
        JInfinity == [type |-> "number", value |-> "Infinity"]
        EnabledJson ==
            {JUndefined, JBool(TRUE), JBool(FALSE), JString("not-a-boolean")}
        EventEntries ==
            {JUndefined, JNull, JArray(<<>>), JString("on")}
            \cup {JObject([enabled |-> e]) : e \in EnabledJson}
        EventsJson ==
            {JUndefined, JNull, JArray(<<>>)}
            \cup {JObject(f) : f \in [MentionKeys -> EventEntries]}
        BackendJson ==
            {JUndefined, JString("invalid"), JArray(<<>>),
             JObject([topic |-> JString("my-ntfy-topic")]),
             JObject([topic |-> JString("my-ntfy-topic"), priority |-> JNumber,
                      retries |-> JInfinity]),
             JObject([topic |-> JString("{env:TOKEN}"),
                      auth |-> JObject([token |-> JString("{file:token.txt}")])])}
        BackendsJson ==
            {JUndefined,
             JObject([ntfy |-> JObject([topic |-> JString("my-ntfy-topic")]),
                      bad |-> JString("invalid")]),
             JObject([ntfy |-> JObject([retries |-> JInfinity])])}
        CooldownJson ==
            {JUndefined, JNull, JString("PT1S"),
             JObject([duration |-> JUndefined]),
             JObject([duration |-> JString("PT1S"),
                      edge |-> JString("trailing")]),
             JObject([duration |-> JNumber, edge |-> JString("bogus")])}
        TemplatesJson ==
            {JUndefined, JNull, JArray(<<>>),
             JObject([a |-> JObject([titleCmd |-> JString("cmd"),
                                     messageCmd |-> JNull]),
                      b |-> JString("cmd")])}
        SubagentJson ==
            {JUndefined, JString("never"), JString("bogus"), JBool(TRUE)}
    IN {JObject([enabled |-> en, events |-> ev]) :
           en \in {JUndefined, JBool(FALSE), JString("yes")}, ev \in EventsJson}
       \cup {JObject([events |-> JObject([foo |-> JNull]), backend |-> bk,
                      backends |-> bs, cooldown |-> c, templates |-> t,
                      subagentNotifications |-> sub]) :
                bk \in BackendJson, bs \in BackendsJson, c \in CooldownJson,
                t \in TemplatesJson, sub \in SubagentJson}

\* The raw texts, as JSON.parse sees them: a SyntaxError, a JSON value that
\* is no object, or a document.
Contents ==
    {[valid |-> FALSE, json |-> JUndefined]}
    \cup {[valid |-> TRUE, json |-> j] :
             j \in {JNull, JArray(<<>>), JString("text"), JNumber} \cup Documents}

(***************************************************************************)
(* Secret substitution: substituteString of src/src/config.ts:61-75.  A    *)
(* string is a sequence of atoms: the openings "{env:" and "{file:", the   *)
(* closing brace, and runs of other characters.                            *)
(***************************************************************************)
\* Longest string substituteString is called with, in atoms.
MaxSubst == 4

\* The runs of other characters: the name of a variable that is set, of
\* one that is set to the text of a placeholder, of a property every
\* object inherits, a tilde, an absolute path and a relative path.
SubstAtoms ==
    {"{env:", "{file:", "}", "TOKEN", "REF", "constructor", "~", "/token.txt",
     "token.txt"}

\* process.env: the variables that are set.
ProcessEnv ==
    [proto |-> "Object.prototype",
     own |-> [k \in {"TOKEN", "REF"} |->
                IF k = "TOKEN" THEN <<"hello-world">>
                ELSE <<"{file:", "/token.txt", "}">>]]

\* The files that can be read, with their contents: one at the root, one
\* in the directory of the configuration file and one in the home
\* directory.
ReadableFiles ==
    [f \in {"/token.txt", "/cfg/token.txt", "/home/token.txt"} |->
        IF f = "/token.txt" THEN <<" ", "my-secret-token", " ", "\n">>
        ELSE IF f = "/cfg/token.txt" THEN <<"cfg-secret", "\n">>
        ELSE <<" ", "home-secret">>]

\* /\{env:([^}]+)\}/ or /\{file:([^}]+)\}/ tried at index i: the index of
\* the closing brace, 0 when the pattern does not match there.
RECURSIVE PlaceholderEnd(_, _, _, _)
PlaceholderEnd(str, i, open, j) ==
    IF str[i] # open \/ j > Len(str) THEN 0
    ELSE IF str[j] = "}" THEN (IF j > i + 1 THEN j ELSE 0)
    ELSE PlaceholderEnd(str, i, open, j + 1)

\* value.replace(/\{env:([^}]+)\}/g, (_, varName) => process.env[varName] ?? "")
\* from index i on.
RECURSIVE replaceEnvFrom(_, _)
replaceEnvFrom(value, i) ==
    IF i > Len(value) THEN <<>>
    ELSE LET e == PlaceholderEnd(value, i, "{env:", i + 1) IN
         IF e # 0
         THEN LET v == Get(ProcessEnv, Key(SubSeq(value, i + 1, e - 1)))
              IN (IF v = <<>> THEN <<>> ELSE v[1]) \o replaceEnvFrom(value, e + 1)
         ELSE <<value[i]>> \o replaceEnvFrom(value, i + 1)

\* The file a path names: itself when absolute, in the home directory
\* after a tilde, otherwise in the configuration directory.
resolvedPathHome(filePath, configDir) ==
    IF filePath[1] = "/token.txt" THEN Key(filePath)
    ELSE IF filePath[1] = "~" THEN "/home" \o Key(Tail(filePath))
    ELSE configDir \o "/" \o Key(filePath)

\* filePath.startsWith("/") ? filePath : join(configDir, filePath)
resolvedPath(filePath, configDir) ==
    IF filePath[1] = "/token.txt" THEN Key(filePath)
    ELSE configDir \o "/" \o Key(filePath)

\* envSubstituted.replace(/\{file:([^}]+)\}/g, ...) from index i on: the
\* trimmed text of the file, the empty string when reading it throws.
RECURSIVE replaceFileFrom(_, _, _)
replaceFileFrom(value, i, configDir) ==
    IF i > Len(value) THEN <<>>
    ELSE LET e == PlaceholderEnd(value, i, "{file:", i + 1) IN
         IF e # 0
         THEN LET path == resolvedPath(SubSeq(value, i + 1, e - 1), configDir)
              IN (IF path \in DOMAIN ReadableFiles
                  THEN trim(ReadableFiles[path]) ELSE <<>>)
                 \o replaceFileFrom(value, e + 1, configDir)
         ELSE <<value[i]>> \o replaceFileFrom(value, i + 1, configDir)

substituteString(value, configDir) ==
    replaceFileFrom(replaceEnvFrom(value, 1), 1, configDir)

InitCfg ==
    /\ now = StartTime
    /\ ticks = 0
    /\ rateLimiter = NullLimiter
    /\ refLimiter = NullLimiter
    /\ k1 = "none"
    /\ lastCall = NoCall
    /\ hist = <<>>
    /\ variant = "config"
    /\ config = <<>>
    /\ inv = IdleCall

\* parseConfigFile(content) is called and returns or throws.
CallParseConfigFile(snapshot, content) ==
    /\ inv.pc = "idle"
    /\ LET r == parseConfigFile(snapshot, content) IN
       inv' = [IdleCall EXCEPT !.pc = "settled", !.fn = "parseConfigFile",
                  !.snapshot = snapshot, !.args = [content |-> content],
                  !.result = IF r.threw THEN "threw" ELSE "returned",
                  !.value = IF r.threw THEN [error |-> r.error] ELSE r.config]
    /\ UNCHANGED tplVars

\* loadConfig() is called with the file readable (its text parsing to
\* content) or not, and returns or throws.
CallLoadConfig(snapshot, read, content) ==
    /\ inv.pc = "idle"
    /\ LET r == loadConfig(snapshot, read, content) IN
       inv' = [IdleCall EXCEPT !.pc = "settled", !.fn = "loadConfig",
                  !.snapshot = snapshot,
                  !.args = [read |-> read, content |-> content],
                  !.result = IF r.threw THEN "threw" ELSE "returned",
                  !.value = IF r.threw THEN [error |-> r.error] ELSE r.config]
    /\ UNCHANGED tplVars

\* substituteString(value, configDir) is called and returns.
CallSubstituteString(value, configDir) ==
    /\ inv.pc = "idle"
    /\ inv' = [IdleCall EXCEPT !.pc = "settled", !.fn = "substituteString",
                  !.args = [value |-> value, configDir |-> configDir],
                  !.result = "returned",
                  !.value = substituteString(value, configDir)]
    /\ UNCHANGED tplVars

NextCfg ==
    \/ /\ inv.pc = "idle"
       /\ \/ \E snapshot \in {"config.ts:98", "config.ts:267"},
                content \in Contents :
                CallParseConfigFile(snapshot, content)
          \/ \E snapshot \in {"config.ts:98", "config.ts:267"},
                content \in Contents :
                CallLoadConfig(snapshot, "ok", content)
          \/ \E snapshot \in {"config.ts:98", "config.ts:267"},
                read \in {"ENOENT", "EACCES"} :
                CallLoadConfig(snapshot, read, <<>>)
          \/ \E value \in Strings(SubstAtoms, MaxSubst) :
                CallSubstituteString(value, "/cfg")
    \/ CallerContinues

SpecCfg == InitCfg /\ [][NextCfg]_vars

(***************************************************************************)
(* Properties of configuration parsing.                                    *)
(***************************************************************************)
\* The document says events[k].enabled is the boolean b.
Mentions(document, k, b) ==
    /\ "events" \in DOMAIN document.props
    /\ document.props["events"].type = "object"
    /\ k \in DOMAIN document.props["events"].props
    /\ document.props["events"].props[k].type = "object"
    /\ "enabled" \in DOMAIN document.props["events"].props[k].props
    /\ document.props["events"].props[k].props["enabled"] = JBool(b)

\* C20: for every raw text that parses to a JSON object, the configuration
\* parseConfigFile returns has an events entry for exactly the canonical
\* event kinds.  A kind the document gives a boolean enabled takes that
\* value; a kind it does not mention, or mentions with a malformed entry,
\* is enabled; keys that are not canonical kinds do not appear.
C20_EventsExactlyCanonical ==
    (inv.fn \in {"parseConfigFile", "loadConfig"} /\ inv.result = "returned"
     /\ inv.args.content # <<>>) =>
        LET document == inv.args.content.json
            events == inv.value.events
        IN /\ inv.args.content.valid
           /\ document.type = "object"
           /\ DOMAIN events = NotificationEventsOf(inv.snapshot)
           /\ \A k \in DOMAIN events :
                 /\ Mentions(document, k, FALSE) => ~events[k].enabled
                 /\ ~Mentions(document, k, FALSE) => events[k].enabled

\* A document switched session.idle off, gave session.error an enabled
\* that is no boolean and switched on a key that is no kind: the result
\* has session.idle off, session.error on and no entry for that key.
C20_Witness ==
    /\ inv.fn = "parseConfigFile"
    /\ inv.snapshot = "config.ts:98"
    /\ inv.result = "returned"
    /\ Mentions(inv.args.content.json, "session.idle", FALSE)
    /\ Mentions(inv.args.content.json, "foo.bar", TRUE)
    /\ Prop(Prop(inv.args.content.json, "events"), "session.error")
          = JObject([enabled |-> JString("not-a-boolean")])
    /\ ~inv.value.events["session.idle"].enabled
    /\ inv.value.events["session.error"].enabled
    /\ "foo.bar" \notin DOMAIN inv.value.events

\* C21: parseConfigFile never raises on a field-level mismatch.  For every
\* text that parses to a JSON object a configuration is returned; enabled is
\* the boolean given and true otherwise; an event entry whose enabled is no
\* boolean is enabled; a backend, backends, templates or cooldown section
\* that is no object (nor, for templates and cooldown, null) is the
\* default; a backend section that is an object is kept as it is.
C21_FieldMismatchFallsBack ==
    (/\ inv.fn = "parseConfigFile"
     /\ inv.args.content.valid
     /\ inv.args.content.json.type = "object") =>
        LET document == inv.args.content.json
            c == inv.value
            at(k) == Prop(document, k)
        IN /\ inv.result = "returned"
           /\ c.enabled = (IF at("enabled").type = "boolean"
                           THEN at("enabled").value ELSE TRUE)
           /\ \A k \in DOMAIN c.events :
                 (~Mentions(document, k, TRUE) /\ ~Mentions(document, k, FALSE))
                    => c.events[k].enabled
           /\ inv.snapshot = "config.ts:98" =>
                 c.backend = (IF at("backend").type = "object"
                              THEN at("backend").props ELSE EmptyMap)
           /\ inv.snapshot = "config.ts:267" =>
                 /\ at("backends").type # "object" => c.backends = EmptyMap
                 /\ at("templates").type # "object" => c.templates = <<>>
                 /\ at("cooldown").type # "object" => c.cooldown = <<>>
                 /\ at("subagentNotifications").type # "string" =>
                       c.subagentNotifications = "separate"

C23_ParseIdempotent ==
    (inv.fn = "parseConfigFile" /\ inv.result = "returned") =>
        LET again == parseConfigFile(inv.snapshot,
                                     stringifyConfig(inv.snapshot, inv.value))
        IN ~again.threw /\ again.config = inv.value

\* What the placeholders of a string stand for, read left to right in one
\* pass: {env:NAME} is the value of the variable NAME, empty when it is not
\* set; {file:P} is the trimmed text of the file at P (absolute, in the
\* home directory after a tilde, otherwise in the configuration
\* directory), empty when it cannot be read; everything else is itself.
RECURSIVE Substituted(_, _, _)
Substituted(value, i, configDir) ==
    IF i > Len(value) THEN <<>>
    ELSE LET env == PlaceholderEnd(value, i, "{env:", i + 1)
             file == PlaceholderEnd(value, i, "{file:", i + 1)
         IN IF env # 0
            THEN LET name == Key(SubSeq(value, i + 1, env - 1)) IN
                 (IF name \in DOMAIN ProcessEnv.own THEN ProcessEnv.own[name]
                  ELSE <<>>) \o Substituted(value, env + 1, configDir)
            ELSE IF file # 0
            THEN LET path == resolvedPathHome(SubSeq(value, i + 1, file - 1),
                                              configDir) IN
                 (IF path \in DOMAIN ReadableFiles
                  THEN trim(ReadableFiles[path]) ELSE <<>>)
                 \o Substituted(value, file + 1, configDir)
            ELSE <<value[i]>> \o Substituted(value, i + 1, configDir)

\* C25: substituteString never throws; it replaces each {env:NAME} by the
\* value of the environment variable NAME, or by the empty string when it
\* is unset, and each {file:P} by the trimmed contents of the file at P
\* (absolute, relative to the home directory after a tilde, otherwise
\* relative to the configuration directory), or by the empty string when
\* the file cannot be read; the text outside placeholders is unchanged.
\* (Which placeholder an opening inside another placeholder belongs to is
\* left open; the values are compared for strings without one.)
C25_SubstituteString ==
    inv.fn = "substituteString" =>
        LET str == inv.args.value
            openings == {"{env:", "{file:"}
            nested == \E i, j \in DOMAIN str :
                         /\ i < j
                         /\ str[i] \in openings
                         /\ str[j] \in openings
                         /\ \A m \in i .. j : str[m] # "}"
        IN /\ inv.result = "returned"
           /\ ~nested => inv.value = Substituted(str, 1, inv.args.configDir)

\* A JSON value with substituteString applied to every string leaf, at any
\* depth (numbers, booleans and null are left as they are).
RECURSIVE Expanded(_, _)
Expanded(value, configDir) ==
    LET leaves == {<<"{env:", "TOKEN", "}">>, <<"{file:", "token.txt", "}">>} IN
    IF value.type = "string"
    THEN IF \E t \in leaves : value.value = Key(t)
         THEN JString(Key(substituteString(
                  CHOOSE t \in leaves : value.value = Key(t), configDir)))
         ELSE value
    ELSE IF value.type = "object"
    THEN [type |-> "object",
          props |-> [k \in DOMAIN value.props |->
                       Expanded(value.props[k], configDir)]]
    ELSE value

\* C24: parseConfigFile expands the {env:NAME} and {file:P} placeholders of
\* every string leaf of the parsed document, at any depth, before it
\* validates and merges: the configuration it returns, the backend section
\* included, is the one the expanded document gives.
C24_SubstitutionBeforeValidation ==
    (inv.fn = "parseConfigFile" /\ inv.result = "returned") =>
        inv.value =
           parseConfigFile(inv.snapshot,
                           [valid |-> TRUE,
                            json |-> Expanded(inv.args.content.json, "/cfg")]).config

\* C26: when the configuration file does not exist loadConfig returns the
\* all-defaults configuration: enabled, every canonical kind enabled, no
\* cooldown, no templates, an empty backend section; it is a configuration
\* the pipeline starts with.  Any other failure to read the file is raised
\* to the caller.
C26_MissingFileGivesDefaults ==
    (inv.fn = "loadConfig" /\ inv.args.read # "ok") =>
        IF inv.args.read = "ENOENT"
        THEN LET c == inv.value IN
             /\ inv.result = "returned"
             /\ c.enabled
             /\ DOMAIN c.events = NotificationEventsOf(inv.snapshot)
             /\ \A k \in DOMAIN c.events : c.events[k].enabled
             /\ IF inv.snapshot = "config.ts:98"
                THEN /\ c.backend = EmptyMap
                     /\ DOMAIN c = {"enabled", "events", "backend"}
                     /\ [enabled |-> c.enabled, events |-> c.events,
                         cooldown |-> <<>>, templates |-> <<>>]
                           \in Configs("plain")
                ELSE /\ c.backends = EmptyMap
                     /\ c.cooldown = <<>>
                     /\ c.templates = <<>>
                     /\ [enabled |-> c.enabled,
                         subagentNotifications |-> c.subagentNotifications,
                         events |-> c.events, cooldown |-> c.cooldown,
                         templates |-> c.templates] \in LegacyConfigs
        ELSE /\ inv.result = "threw"
             /\ inv.value = [error |-> inv.args.read]

\* loadConfig found no file and returned the defaults of the later
\* snapshot, without cooldown and templates.
C26_Witness ==
    /\ inv.fn = "loadConfig"
    /\ inv.snapshot = "config.ts:267"
    /\ inv.args.read = "ENOENT"
    /\ inv.result = "returned"
    /\ inv.value.cooldown = <<>>
    /\ inv.value.templates = <<>>
    /\ inv.value.events["session.complete"].enabled

(***************************************************************************)
(* Properties of the session classification (src/src/events.ts:41-76, as   *)
(* the hook of src/unnamed/part_016 calls it for session.idle).            *)
(***************************************************************************)
\* C27: classifySession in mode always returns session.complete without
\* calling the lookup; in mode never it returns null for a child session
\* (the event is ignored) and session.complete for a root session; in mode
\* separate it returns subagent.complete for a child session and
\* session.complete for a root session; a failing lookup counts as a root
\* session in never and in separate.
C27_ClassifySessionModes ==
    \A r \in Invocations :
        (/\ variant \in LegacyVariants
         /\ r.type = "session.idle"
         /\ config.enabled
         /\ r.pc \notin {"free", "running", "lookup"}) =>
            LET mode == config.subagentNotifications IN
            /\ mode = "always" => r.lookups = 0 /\ r.kind = "session.complete"
            /\ mode = "never" =>
                  /\ r.lookups = 1
                  /\ r.lookup = "child" =>
                        r.kind = "none" /\ r.outcome = "dropped" /\ r.sends = 0
                  /\ r.lookup \in {"root", "throws"} => r.kind = "session.complete"
            /\ mode = "separate" =>
                  /\ r.lookups = 1
                  /\ r.lookup = "child" => r.kind = "subagent.complete"
                  /\ r.lookup \in {"root", "throws"} => r.kind = "session.complete"

\* In mode never the lookup failed and the event went to the sink as
\* session.complete.
C27_Witness ==
    \E r \in Invocations :
        /\ variant \in LegacyVariants
        /\ config.subagentNotifications = "never"
        /\ r.type = "session.idle"
        /\ r.lookup = "throws"
        /\ r.kind = "session.complete"
        /\ r.outcome = "sent"

\* C28: the session classifier answers true exactly when the lookup
\* succeeds and yields a non-empty parentID; it answers false when the
\* lookup throws, when the session data is undefined, when parentID is
\* absent or empty, and when the session id passed in is empty.  (Seen
\* through classifySession: a session.idle event is classified as
\* session.complete exactly when the classifier answered false.)
C28_ClassifierTrueOnlyForChild ==
    \A r \in Invocations :
        (/\ variant \in LegacyVariants
         /\ r.type = "session.idle"
         /\ config.enabled
         /\ config.subagentNotifications # "always"
         /\ r.pc \notin {"free", "running", "lookup"}) =>
            (r.kind # "session.complete" <=>
                (r.sessionID # "" /\ r.lookup = "child"))

(***************************************************************************)
(* permission.asked events whose properties are not of the expected shape  *)
(* (src/src/plugin-factory.ts, lines 125-174 and 320-368): the hook of     *)
(* both snapshots under configurations without a cooldown that differ in   *)
(* enabled, in the switch of permission.asked and in the templates.        *)
(***************************************************************************)
\* The events the host may pass: without properties, with properties that
\* are no object, and with one or all of sessionID, type and pattern absent
\* or of another type than expected.
PermissionEvents ==
    LET PermissionEvent(props) ==
            [type |-> "permission.asked",
             sessionID |->
                 IF isRecord(props) /\ IsString(Prop(props, "sessionID"))
                 THEN Prop(props, "sessionID").value ELSE Undefined,
             properties |-> props]
        Mixed == JArray(<<JString("a"), JString("b"), JNumber>>)
        Alike == JArray(<<JString("/tmp/*.txt"), JString("/home/*.log")>>)
    IN {[type |-> "permission.asked", sessionID |-> Undefined]}
       \cup {PermissionEvent(JNull),
             PermissionEvent(
                 [PermissionProperties EXCEPT !.props.sessionID = JNumber]),
             PermissionEvent(
                 [PermissionProperties EXCEPT
                      !.props.type = JObject([name |-> JString("write")])])}
       \cup {PermissionEvent(
                 [PermissionProperties EXCEPT !.props.pattern = p]) :
                 p \in {JString("/tmp/*.txt"), JNumber, Alike, Mixed}}
       \cup {PermissionEvent(
                 JObject([sessionID |-> JNumber, type |-> JBool(TRUE),
                          pattern |-> Mixed]))}

InitPerm ==
    /\ now = StartTime
    /\ ticks = 0
    /\ variant \in Variants
    /\ config \in {c \in Configs(variant) :
                       /\ c.cooldown = <<>>
                       /\ c.events["session.idle"].enabled
                       /\ c.events["session.error"].enabled}
    /\ rateLimiter = InitialLimiter(variant, config)
    /\ inv = [h \in Handlers |-> FreeSlot]
    /\ refLimiter = NullLimiter
    /\ k1 = "none"
    /\ lastCall = NoCall
    /\ hist = [k \in Keys |-> NoneAllowed]

NextPerm ==
    \/ \E h \in Handlers, event \in PermissionEvents : Dispatch(h, event)
    \/ \E h \in Handlers, outcome \in ExecOutcomes : TitleReturn(h, outcome)
    \/ \E h \in Handlers, outcome \in ExecOutcomes : MessageReturn(h, outcome)
    \/ \E h \in Handlers, outcome \in SendOutcomes : SendReturn(h, outcome)
    \/ \E h \in Handlers : Retire(h)

SpecPerm == InitPerm /\ [][NextPerm]_vars

\* C29: for a permission.asked event that is not filtered out, the
\* permissionPatterns of the metadata are the pattern property as a
\* one-element list when it is a string, the pattern property itself when
\* it is an array of strings only, and undefined for any other value (a
\* mixed array included); sessionId and permissionType are the sessionID
\* and type properties when these are strings and "" otherwise; and
\* whatever the properties are, the hook calls the sink once and returns.
C29_PermissionProperties ==
    \A h \in Handlers :
        LET r == inv[h]
            props == r.properties
            sessionID == IF isRecord(props) THEN Prop(props, "sessionID")
                         ELSE JUndefined
            permType == IF isRecord(props) THEN Prop(props, "type")
                        ELSE JUndefined
            pattern == IF isRecord(props) THEN Prop(props, "pattern")
                       ELSE JUndefined
        IN /\ r.type = "permission.asked"
           /\ config.enabled
           /\ config.events["permission.asked"].enabled
           => /\ r.metadata # <<>>
              /\ r.metadata[1].permissionPatterns =
                    (CASE pattern.type = "string" -> JArray(<<pattern>>)
                       [] /\ pattern.type = "array"
                          /\ \A i \in DOMAIN pattern.items :
                                pattern.items[i].type = "string" -> pattern
                       [] OTHER -> JUndefined)
              /\ r.metadata[1].sessionId =
                    (IF sessionID.type = "string" THEN sessionID.value ELSE "")
              /\ r.metadata[1].permissionType =
                    (IF permType.type = "string" THEN permType.value ELSE "")
              /\ r.pc \in {"send", "done"} => r.sends = 1
              /\ r.pc = "done" => r.outcome = "sent" /\ r.result = "resolved"

\* An event whose pattern is an array with a non-string element, and whose
\* sessionID and type are no strings, was passed to the sink without
\* patterns.
C29_Witness ==
    \E h \in Handlers :
        /\ inv[h].type = "permission.asked"
        /\ inv[h].pc = "done"
        /\ inv[h].outcome = "sent"
        /\ isRecord(inv[h].properties)
        /\ Prop(inv[h].properties, "pattern").type = "array"
        /\ \E i \in DOMAIN Prop(inv[h].properties, "pattern").items :
               Prop(inv[h].properties, "pattern").items[i].type # "string"
        /\ Prop(inv[h].properties, "sessionID").type = "number"
        /\ Prop(inv[h].properties, "type").type = "boolean"
        /\ inv[h].metadata[1].permissionPatterns = JUndefined
        /\ inv[h].metadata[1].sessionId = ""
        /\ inv[h].metadata[1].permissionType = ""

Instances == {1, 2}

\* The rateLimiter the closure of instantiation i holds.
LimiterOf(i) == IF i = 1 THEN rateLimiter ELSE refLimiter

InitInst ==
    /\ now = StartTime
    /\ ticks = 0
    /\ variant = "limited"
    /\ config \in {c \in Configs(variant) :
                       /\ c.cooldown # <<>>
                       /\ c.cooldown[1].edge = "leading"
                       /\ c.enabled}
    /\ rateLimiter = InitialLimiter(variant, config)
    /\ refLimiter = InitialLimiter(variant, config)
    /\ inv = [h \in Handlers |-> FreeSlot]
    /\ k1 = "none"
    /\ lastCall = NoCall
    /\ hist = [k \in Keys |-> NoneAllowed]

\* The host passes an event to the event hook of instantiation i.
InstDispatch(i, event) ==
    /\ inv[i].pc = "free"
    /\ LET s == eventHook(event, LimiterOf(i), now)
       IN /\ Continue(i, s.inv)
          /\ rateLimiter' = IF i = 1 THEN s.lim ELSE rateLimiter
          /\ refLimiter' = IF i = 2 THEN s.lim ELSE refLimiter
    /\ UNCHANGED <<now, ticks, variant, config, k1, lastCall, hist>>

\* client.session.get settles for the hook of instantiation i.
InstLookupReturn(i, response) ==
    /\ inv[i].pc = "lookup"
    /\ LET r == [inv[i] EXCEPT !.lookup = LookupTag(response)]
           s == AfterSubagentCheck(r, isChildSession(response),
                                   LimiterOf(i), now)
       IN /\ Continue(i, s.inv)
          /\ rateLimiter' = IF i = 1 THEN s.lim ELSE rateLimiter
          /\ refLimiter' = IF i = 2 THEN s.lim ELSE refLimiter
    /\ UNCHANGED <<now, ticks, variant, config, k1, lastCall, hist>>

\* The host passes one event of each branch of the hook, session.error
\* left aside, to either hook.
NextInst ==
    \/ \E i \in Instances :
          \E event \in {e \in HostEvents : /\ e.type # "session.error"
                                           /\ e.sessionID = "sess-1"} :
              InstDispatch(i, event)
    \/ \E i \in Instances, response \in SessionResponses :
          InstLookupReturn(i, response)
    \/ \E i \in Instances, outcome \in SendOutcomes : SendReturn(i, outcome)
    \/ \E i \in Instances : Retire(i)
    \/ PipeTick

SpecInst == InitInst /\ [][NextInst]_vars

\* C32: the limiter an instantiation created is the one every event of the
\* instantiation consults: a check made by a hook takes the limiter of its
\* instantiation as it stands and leaves it as shouldAllow left it; no step
\* re-creates or resets a limiter (its kind and duration stay, no key loses
\* its throttled function and no window moves back); and a hook of one
\* instantiation never changes the limiter of the other.
C32_LimiterPerInstantiation ==
    [][\A i \in Instances :
          /\ inv'[i].limiterCalls > inv[i].limiterCalls =>
                /\ LimiterOf(i)' = shouldAllow(LimiterOf(i), inv'[i].kind, now).lim
                /\ LimiterOf(3 - i)' = LimiterOf(3 - i)
          /\ LimiterOf(i)'.kind = LimiterOf(i).kind
          /\ LimiterOf(i)'.durationMs = LimiterOf(i).durationMs
          /\ \A k \in DOMAIN LimiterOf(i).throttledFns :
                /\ k \in DOMAIN LimiterOf(i)'.throttledFns
                /\ LimiterOf(i)'.throttledFns[k] >= LimiterOf(i).throttledFns[k]
          /\ LimiterOf(i)' # LimiterOf(i) =>
                inv'[i].limiterCalls > inv[i].limiterCalls]_vars

\* Witness of C32: the first instantiation has opened windows for two
\* kinds, and the second instantiation, asked about one of the kinds while
\* the window of the first is open, has allowed the event and passed it to
\* the sink.
C32_Witness ==
    /\ DOMAIN rateLimiter.throttledFns = {"session.idle", "permission.asked"}
    /\ rateLimiter.throttledFns["permission.asked"] >
          rateLimiter.throttledFns["session.idle"]
    /\ "session.idle" \in DOMAIN refLimiter.throttledFns
    /\ refLimiter.throttledFns["session.idle"] =
          rateLimiter.throttledFns["session.idle"]
    /\ rateLimiter.throttledFns["session.idle"] >= StartTime
    /\ inv[2].type = "session.idle"
    /\ inv[2].allowed = "yes"
    /\ inv[2].pc = "done"
    /\ inv[2].outcome = "sent"
(***************************************************************************)
(* The pipeline when every external call settles: each awaited call of an  *)
(* invocation (client.session.get, the shell, backend.send) eventually     *)
(* returns or throws and the event loop then resumes the hook, and the     *)
(* host takes the result of a settled invocation.                          *)
(***************************************************************************)
\* The call invocation h awaits settles and the hook is resumed.
Resume(h) ==
    \/ \E response \in SessionResponses : LookupReturn(h, response)
    \/ \E outcome \in ExecOutcomes : TitleReturn(h, outcome)
    \/ \E outcome \in ExecOutcomes : MessageReturn(h, outcome)
    \/ \E outcome \in SendOutcomes : SendReturn(h, outcome)

\* The plugin of either snapshot with everything switched on; the limited
\* snapshot with or without a leading cooldown and with or without
\* templates.
InitLive ==
    /\ now = StartTime
    /\ ticks = 0
    /\ variant \in Variants
    /\ config \in
          [enabled : {TRUE},
           events : {[k \in Keys |-> [enabled |-> TRUE]]},
           cooldown : IF variant = "limited"
                      THEN {<<>>, <<[duration |-> "PT1S", edge |-> "leading"]>>}
                      ELSE {<<>>},
           templates : IF variant = "limited" THEN Templates ELSE {<<>>}]
    /\ rateLimiter = InitialLimiter(variant, config)
    /\ inv = [h \in Handlers |-> FreeSlot]
    /\ refLimiter = NullLimiter
    /\ k1 = "none"
    /\ lastCall = NoCall
    /\ hist = [k \in Keys |-> NoneAllowed]

\* Up to two hooks run, interleaved, while the clock stands still.
NextLive ==
    \/ \E h \in {1, 2}, event \in HostEvents : Dispatch(h, event)
    \/ \E h \in {1, 2} : Resume(h)
    \/ \E h \in {1, 2} : Retire(h)

SpecLive ==
    /\ InitLive
    /\ [][NextLive]_vars
    /\ \A h \in {1, 2} : SF_vars(Resume(h)) /\ WF_vars(Retire(h))

\* C33: every invocation of the event hook ends, in a sink call or in a
\* silent drop, when each external call it awaits returns or throws; and an
\* invocation calls client.session.get at most once, the shell at most
\* twice (title and message) and the sink at most once.
C33_HandlerTerminates ==
    /\ [](\A h \in Handlers :
             /\ inv[h].lookups <= 1
             /\ inv[h].execs <= 2
             /\ inv[h].sends <= 1)
    /\ \A h \in Handlers :
          (inv[h].pc \notin {"free", "done"}) ~>
              (/\ inv[h].pc = "done"
               /\ inv[h].result = "resolved"
               /\ inv[h].outcome \in {"sent", "dropped"})

\* Witness of C33: an invocation that awaited the session lookup, both
\* template commands and the sink, each once, and ended though the title
\* command and the sink threw.
C33_Witness ==
    \E h \in Handlers :
        /\ inv[h].pc = "done"
        /\ inv[h].outcome = "sent"
        /\ inv[h].lookups = 1
        /\ inv[h].execs = 2
        /\ inv[h].sends = 1
        /\ inv[h].sendOutcome = "throws"
        /\ inv[h].title = getDefaultTitle(inv[h].kind)
        /\ inv[h].message = "stdout"

\* C34: leading-edge cooldown D, hooks interleaving at their awaits.  Of two
\* events of one kind that are in flight together and both passed the
\* limiter, one was checked more than D after the last allowed check of the
\* kind that preceded it, so the two checks do not fall inside one window;
\* and the check that is allowed records its time in the same step, before
\* any other hook can run.
C34_OnePerWindowWhenInterleaved ==
    [][rateLimiter.kind = "leading" =>
          \A h \in Handlers :
              /\ \A g \in Handlers \ {h} :
                    (/\ inv[h].kind = inv[g].kind
                     /\ inv[h].allowed = "yes"
                     /\ inv[g].allowed = "yes") =>
                        \/ inv[h].since > rateLimiter.durationMs
                        \/ inv[g].since > rateLimiter.durationMs
              /\ (/\ inv'[h].limiterCalls > inv[h].limiterCalls
                  /\ inv'[h].allowed = "yes") =>
                    rateLimiter'.throttledFns[inv'[h].kind] = now]_vars

\* Witness of C34: two session events of one kind were looked up
\* concurrently; the one whose lookup returned first is at the sink, the
\* other one was dropped by the limiter in the same millisecond.
C34_Witness ==
    \E h \in Handlers :
        \E g \in Handlers \ {h} :
            /\ rateLimiter.kind = "leading"
            /\ inv[h].kind = inv[g].kind
            /\ inv[h].lookups = 1 /\ inv[g].lookups = 1
            /\ inv[h].allowed = "yes" /\ inv[h].pc = "send"
            /\ inv[g].allowed = "no" /\ inv[g].since = 0
            /\ inv[g].sends = 0

\* C35: an event that is dropped because the plugin or its kind is switched
\* off, because its session is a child session or because its type is not
\* recognised ends without a limiter check, and the step that drops it
\* leaves the limiter as it was: no window is started or extended and no
\* quiet period restarted.
C35_EarlyDropLeavesLimiter ==
    [][\A h \in Handlers :
          (/\ inv[h].pc \in {"free", "lookup"}
           /\ inv'[h].pc = "done"
           /\ \/ ~config.enabled
              \/ inv'[h].kind = "none"
              \/ inv'[h].lookup = "child"
              \/ kindDisabled(config, inv'[h].kind)) =>
              /\ inv'[h].outcome = "dropped"
              /\ inv'[h].limiterCalls = 0
              /\ inv'[h].sends = 0
              /\ rateLimiter' = rateLimiter]_vars

\* Witness of C35: a session.idle event of a child session was dropped
\* while the window of session.idle, opened earlier, is still as it was.
C35_Witness ==
    \E h \in Handlers :
        /\ rateLimiter.kind = "leading"
        /\ "session.idle" \in DOMAIN rateLimiter.throttledFns
        /\ rateLimiter.throttledFns["session.idle"] < now
        /\ inv[h].type = "session.idle"
        /\ inv[h].pc = "done"
        /\ inv[h].lookup = "child"
        /\ inv[h].outcome = "dropped"
        /\ inv[h].limiterCalls = 0

\* C36: leading-edge cooldown D.  An event that passed the limiter has
\* consumed the window of its kind from the moment of its check, while its
\* title, message and sink call are still pending; when the sink settles,
\* by returning or by throwing, the hook ends after that one sink call and
\* the limiter is left as it was; and an event of the kind checked less
\* than D after the allowed check is dropped without a sink call.
C36_WindowConsumedAtCheck ==
    [][rateLimiter.kind = "leading" =>
          \A h \in Handlers :
              /\ inv[h].allowed = "yes" =>
                    /\ hist[inv[h].kind].everTrue
                    /\ inv[h].kind \in DOMAIN rateLimiter.throttledFns
                    /\ rateLimiter.throttledFns[inv[h].kind] =
                          hist[inv[h].kind].lastTrueAt
              /\ (inv[h].pc = "send" /\ inv'[h] # inv[h]) =>
                    /\ inv'[h].pc = "done"
                    /\ inv'[h].sends = 1
                    /\ rateLimiter' = rateLimiter
              /\ (/\ inv'[h].limiterCalls > inv[h].limiterCalls
                  /\ hist[inv'[h].kind].everTrue
                  /\ now - hist[inv'[h].kind].lastTrueAt
                        < rateLimiter.durationMs) =>
                    /\ inv'[h].allowed = "no"
                    /\ inv'[h].pc = "done"
                    /\ inv'[h].sends = 0]_vars

\* Witness of C36: an event passed the limiter, both of its commands ran,
\* the sink threw, and the window its check opened is still in place.
C36_Witness ==
    \E h \in Handlers :
        /\ rateLimiter.kind = "leading"
        /\ inv[h].allowed = "yes"
        /\ inv[h].execs = 2
        /\ inv[h].sends = 1
        /\ inv[h].pc = "done"
        /\ inv[h].sendOutcome = "throws"
        /\ rateLimiter.throttledFns[inv[h].kind] = now

\* C37: with a trailing-edge cooldown, the context the sink is handed is
\* built from the event of the invocation whose own shouldAllow call
\* returned true: its kind, its session id, its metadata and the title and
\* message resolved for it.  An invocation whose check returned false has
\* built no context, so the event whose quiet period elapsed is never the
\* one delivered.
C37_ContextOfAllowedEvent ==
    rateLimiter.kind = "trailing" =>
        \A h \in Handlers :
            /\ inv[h].context # <<>> =>
                  /\ inv[h].sends = 1
                  /\ inv[h].limiterCalls = 1
                  /\ inv[h].allowed = "yes"
                  /\ inv[h].context[1] =
                        [event |-> inv[h].kind, title |-> inv[h].title,
                         message |-> inv[h].message,
                         sessionId |-> inv[h].sessionID,
                         metadata |-> inv[h].metadata]
            /\ inv[h].allowed = "no" => inv[h].context = <<>>

\* Witness of C37: under a trailing-edge cooldown the event of session
\* sess-1 is at the sink; its check was the first of the kind to be
\* allowed, so the events that started the quiet period were all denied,
\* and the context carries sess-1.
C37_Witness ==
    /\ rateLimiter.kind = "trailing"
    /\ \E h \in Handlers :
        /\ inv[h].pc = "send"
        /\ inv[h].type = "session.idle"
        /\ inv[h].allowed = "yes"
        /\ inv[h].since = -1
        /\ inv[h].context # <<>>
        /\ inv[h].context[1].sessionId = "sess-1"
        /\ inv[h].context[1].event = "session.idle"

C39_SinglePassSubstitution ==
    LET Single(t, variables, out) ==
            \A i \in 1 .. Len(t) :
                (/\ MatchEnd(t, i) # 0
                 /\ \A j \in 1 .. Len(t) : j # i => MatchEnd(t, j) = 0) =>
                    LET e == MatchEnd(t, i)
                        v == Get(variables, Key(SubSeq(t, i + 1, e - 1)))
                    IN out = SubSeq(t, 1, i - 1)
                             \o (IF v = <<>> THEN <<>> ELSE v[1])
                             \o SubSeq(t, e + 1, Len(t))
    IN /\ (inv.fn = "renderTemplate" /\ inv.pc = "settled") =>
              Single(inv.args.template,
                     buildTemplateVariables(inv.args.context.event,
                                            inv.args.context.metadata),
                     inv.value)
       /\ (inv.fn = "resolveField" /\ inv.snapshot = "templates.ts"
              /\ inv.shellCalls = 1) =>
              Single(inv.args.commandTemplate.text, inv.args.variables,
                     inv.command)

\* Witness of C39: resolveField was called with the template "{error}" and
\* an error message that reads "{event}"; the command it passed to the
\* shell is "{event}", not the name of the event.
C39_Witness ==
    /\ inv.fn = "resolveField"
    /\ inv.snapshot = "templates.ts"
    /\ inv.pc = "shell"
    /\ inv.args.commandTemplate.text = <<"{", "error", "}">>
    /\ Get(inv.args.variables, "error") = << <<"{", "event", "}">> >>
    /\ Get(inv.args.variables, "event") = << <<"session.error">> >>
    /\ inv.command = <<"{", "event", "}">>

====
